---- MODULE Spec2Model ----
(***************************************************************************)
(* Real-time collaboration backbone of the document-processing service:   *)
(* the Connection Registry (backend/app/websocket/manager.py) and the     *)
(* Delivery Queue (backend/app/websocket/queue.py).                       *)
(*                                                                         *)
(* Time is one integer clock `now`, in milliseconds.  Client ids (uuid4   *)
(* strings in the code) are the integers 1..MaxClients, handed out in      *)
(* order and never reused.  Message objects live in a heap `msgs` indexed  *)
(* by slot; the queues, the pending table, the failed table, the history   *)
(* and the retry timers hold slots, as the Python containers hold          *)
(* references to one QueuedMessage object.                                 *)
(***************************************************************************)
EXTENDS Integers, Sequences, FiniteSets, TLC

VARIABLES
    \* ---- ConnectionManager ----
    active_connections,   \* set of client ids (keys of the client -> WebSocket table)
    user_connections,     \* user id -> set of client ids (keys: users present)
    rooms,                \* room id -> set of client ids (keys: rooms present)
    client_metadata,      \* client id -> [user_id, last_ping, rooms]
    connection_stats,     \* [total_connections, messages_sent, messages_failed]
    mgr_running,          \* ConnectionManager._running
    next_client,          \* next fresh client id
    ret,                  \* outcome of the last registry operation
    \* ---- MessageQueue ----
    priority_queues,      \* priority -> sequence of message slots
    pending_messages,     \* message id -> slot
    failed_messages,      \* message id -> slot
    message_history,      \* sequence of slots
    msgs,                 \* slot -> QueuedMessage record
    rate_limits,          \* identifier -> [count, window_start]
    q_running,            \* MessageQueue._running
    timers,               \* sleeping _requeue_after_delay tasks: [slot, wake]
    in_callback,          \* [id, slot] -> number of mark_delivered calls suspended
                          \* in the delivery callback of that message
    batch_size,           \* MessageQueue.batch_size
    max_queue_size,       \* MessageQueue.max_queue_size
    qret,                 \* what the last enqueue or get_next_batch returned
    hist,                 \* per slot: hand-outs, callback results, retry delays
    accepted,             \* identifier -> time -> enqueues accepted at that time
    persistence,          \* [enabled: enable_persistence and a redis_client are
                          \* set; store: the keys websocket:queue:<id> of the
                          \* Redis store, message id -> unpacked message dict]
    \* ---- ConflictResolver ----
    zone_versions,        \* zone id -> version
    zone_locks,           \* zone id -> user id of the holder
    conflict_history,     \* sequence of recorded conflicts
    \* ---- ZoneService ----
    zs_zone_versions,     \* ZoneService._zone_versions: zone id -> version
    demo_zones,           \* ZoneService._demo_zones: zone id -> field -> value
    svc_resolver,         \* ZoneService.conflict_resolver is set
    svc_manager,          \* ZoneService.connection_manager is set
    cret,                 \* outcome of the last resolver or zone service call
    pending_edit,         \* the change sets of the edit being checked:
                          \* [local, remote]
    \* ---- ProcessingProgressEmitter ----
    active_jobs,          \* job id -> [user_id, total_pages, current_page, stage,
                          \* progress_percentage, end_time]
    cleanup_tasks,        \* sleeping _cleanup_job_after_delay tasks: [job, wake]
    pret,                 \* outcome of the last emitter call
    \* ---- shared ----
    now                   \* the clock, in milliseconds

regVars == <<active_connections, user_connections, rooms, client_metadata,
             connection_stats, mgr_running, next_client, ret>>
queueVars == <<priority_queues, pending_messages, failed_messages, message_history,
               msgs, rate_limits, timers, in_callback, batch_size,
               max_queue_size, qret, hist, accepted, persistence>>
zoneVars == <<zone_versions, zone_locks, conflict_history, zs_zone_versions,
              demo_zones, svc_resolver, svc_manager, cret, pending_edit>>
progVars == <<active_jobs, cleanup_tasks, pret>>
vars == <<regVars, queueVars, q_running, now, zoneVars, progVars>>

\* ------------------------------------------------------------------ helpers
\* dict[k] = v
Put(f, k, v) == [x \in DOMAIN f \cup {k} |-> IF x = k THEN v ELSE f[x]]
\* del dict[k]
Del(f, k) == [x \in DOMAIN f \ {k} |-> f[x]]
\* the empty dict
EmptyDict == [x \in {} |-> {}]
\* Python's None
None == "None"
\* no client (exclude_client=None)
NoClient == 0
Min(a, b) == IF a <= b THEN a ELSE b

\* ------------------------------------------------------------------ bounds
MaxSuspended == 1
MaxClients == 2
MaxFailedStat == 4
RegistryTickMs == 200000
MaxRegistryNow == 400000
Users == {"", "u1", "u2"}
Rooms == {"document_42", "lobby"}
\* room_id.startswith("document_")
DocumentRooms == {"document_42"}
Clients == 1..MaxClients

\* ------------------------------------------------------------------ program constants
\* _cleanup_stale_connections: stale_threshold = now - 300 (seconds)
StaleThreshold == 300

\* ================================================================== Connection Registry
\* The queue object handed to ConnectionManager is always a MessageQueue
\* (manager.py:36-40, dependencies.py:363-370), and MessageQueue defines no
\* add_message method: the call at manager.py:153 raises AttributeError.
QueueHasAddMessage == FALSE

\* dict.get(room_id, set())
RoomMembers(rm, r) == IF r \in DOMAIN rm THEN rm[r] ELSE {}

\* client_metadata.get(client_id, {}).get("user_id")
MetaUser(md, c) == IF c \in DOMAIN md THEN md[c].user_id ELSE None

\* send_personal_message(client_id, event), by the place it returns from:
\*   "not_connected"  line 136-138, returns False
\*   "exception"      line 153 raises, lines 167-170: messages_failed += 1, returns False
\*   "written"        lines 156-162: transport written, messages_sent += 1, returns True
\* Lines 155-166 run only after add_message returned, which it never does.
SendOutcome(conns, c) ==
    IF c \notin conns THEN "not_connected"
    ELSE IF ~QueueHasAddMessage THEN "exception"
    ELSE "written"

\* the clients a loop of send_personal_message calls over `targets` writes to
SendWritten(conns, targets) == {c \in targets : SendOutcome(conns, c) = "written"}
\* the clients for which such a loop counts a failed message
SendFailed(conns, targets) == {c \in targets : SendOutcome(conns, c) = "exception"}

\* connection_stats after a loop of sends that wrote to nw clients and failed for nf
StatsAfterSends(st, nw, nf) ==
    [st EXCEPT !.messages_sent = @ + nw, !.messages_failed = @ + nf]

\* broadcast_to_room: the clients addressed (room members but the excluded one)
BroadcastTargets(rm, r, excl) == RoomMembers(rm, r) \ {excl}

\* _broadcast_user_status: rooms with a member whose metadata names user_id
UserRooms(rm, md, uid) ==
    {r \in DOMAIN rm : \E m \in rm[r] : MetaUser(md, m) = uid}

\* _cleanup_connection, per table
CleanupActive(ac, c) == ac \ {c}

CleanupUsers(uc, md, c) ==
    LET uid == MetaUser(md, c) IN
    IF uid # None /\ uid # "" /\ uid \in DOMAIN uc
    THEN LET s == uc[uid] \ {c} IN IF s = {} THEN Del(uc, uid) ELSE Put(uc, uid, s)
    ELSE uc

\* a clean-up that leaves the rooms alone
CleanupRoomsSkipped(rm, c) == rm

CleanupRooms(rm, c) ==
    [r \in {x \in DOMAIN rm : c \notin rm[x] \/ rm[x] \ {c} # {}} |-> rm[r] \ {c}]

CleanupMeta(md, c) == Del(md, c)

\* join_room: the room table after rooms[room_id].add(client_id)
JoinRooms(rm, c, r) == Put(rm, r, RoomMembers(rm, r) \cup {c})

\* a leave that keeps the room it emptied
LeaveRoomsKeepingEmpty(rm, c, r) ==
    IF r \notin DOMAIN rm THEN rm ELSE Put(rm, r, rm[r] \ {c})

\* leave_room: the room table after the discard and the empty-room clean-up
LeaveRooms(rm, c, r) ==
    IF r \notin DOMAIN rm THEN rm
    ELSE IF rm[r] \ {c} = {} THEN Del(rm, r)
    ELSE Put(rm, r, rm[r] \ {c})

\* the outcome record of a registry operation
Ret(op, c, r, ok, count, members, written, live, tx) ==
    [op |-> op, client |-> c, room |-> r, ok |-> ok, count |-> count,
     members |-> members, written |-> written, live |-> live, tx |-> tx]

InitRegistry ==
    /\ active_connections = {}
    /\ user_connections = EmptyDict
    /\ rooms = EmptyDict
    /\ client_metadata = EmptyDict
    /\ connection_stats = [total_connections |-> 0, messages_sent |-> 0,
                           messages_failed |-> 0]
    /\ mgr_running = FALSE
    /\ next_client = 1
    /\ ret = Ret("init", NoClient, None, FALSE, 0, {}, {}, FALSE, FALSE)

\* connect(websocket, user_id): accept() succeeds; the welcome event is sent
Connect(uid) ==
    LET c == next_client
        ac == active_connections \cup {c}
        w == SendWritten(ac, {c})
        f == SendFailed(ac, {c})
    IN
    /\ next_client <= MaxClients
    /\ connection_stats.messages_failed + Cardinality(f) <= MaxFailedStat
    /\ active_connections' = ac
    /\ user_connections' = Put(user_connections, uid,
                               RoomMembers(user_connections, uid) \cup {c})
    /\ client_metadata' = Put(client_metadata, c,
                              [user_id |-> uid, last_ping |-> now, rooms |-> {}])
    /\ connection_stats' = StatsAfterSends(
            [connection_stats EXCEPT !.total_connections = @ + 1],
            Cardinality(w), Cardinality(f))
    /\ next_client' = c + 1
    /\ ret' = Ret("connect", c, None, TRUE, 0, {}, w, TRUE, TRUE)
    /\ UNCHANGED <<rooms, mgr_running>>

\* connect(websocket, user_id): accept() raises; _cleanup_connection of the
\* unregistered id changes nothing and the exception is re-raised
ConnectRefused(uid) ==
    LET c == next_client IN
    /\ next_client <= MaxClients
    /\ active_connections' = CleanupActive(active_connections, c)
    /\ user_connections' = CleanupUsers(user_connections, client_metadata, c)
    /\ rooms' = CleanupRooms(rooms, c)
    /\ client_metadata' = CleanupMeta(client_metadata, c)
    /\ ret' = Ret("connect", c, None, FALSE, 0, {}, {}, FALSE, FALSE)
    /\ UNCHANGED <<connection_stats, mgr_running, next_client>>

\* the registry tables as one value, for operations that run in sequence
RegState == [ac |-> active_connections, uc |-> user_connections, rm |-> rooms,
             md |-> client_metadata, st |-> connection_stats]

\* disconnect(client_id, reason) applied to the tables S: _broadcast_user_status
\* sends to every member of every room of the user, then _cleanup_connection
DisconnectState(S, c) ==
    IF c \notin S.ac THEN S
    ELSE LET ur == UserRooms(S.rm, S.md, MetaUser(S.md, c))
             f == {<<r, m>> \in ur \X S.ac :
                     m \in SendFailed(S.ac, BroadcastTargets(S.rm, r, NoClient))}
             w == {<<r, m>> \in ur \X S.ac :
                     m \in SendWritten(S.ac, BroadcastTargets(S.rm, r, NoClient))}
         IN [ac |-> CleanupActive(S.ac, c),
             uc |-> CleanupUsers(S.uc, S.md, c),
             rm |-> CleanupRooms(S.rm, c),
             md |-> CleanupMeta(S.md, c),
             st |-> StatsAfterSends(S.st, Cardinality(w), Cardinality(f))]

\* disconnect of every client of cs, in increasing id order (the tables'
\* insertion order)
RECURSIVE DisconnectAll(_, _)
DisconnectAll(S, cs) ==
    IF cs = {} THEN S
    ELSE LET c == CHOOSE x \in cs : \A y \in cs : x <= y
         IN DisconnectAll(DisconnectState(S, c), cs \ {c})

\* the registry tables become S
SetRegState(S) ==
    /\ S.st.messages_failed <= MaxFailedStat
    /\ active_connections' = S.ac
    /\ user_connections' = S.uc
    /\ rooms' = S.rm
    /\ client_metadata' = S.md
    /\ connection_stats' = S.st

\* disconnect(client_id, reason)
Disconnect(c) ==
    /\ SetRegState(DisconnectState(RegState, c))
    /\ ret' = Ret("disconnect", c, None, TRUE, 0,
                  {r \in DOMAIN rooms : c \in rooms[r]}, {},
                  c \in active_connections, TRUE)
    /\ UNCHANGED <<mgr_running, next_client>>

\* join_room(client_id, room_id).  A room of DocumentRooms makes the handler
\* import UserPresenceEvent from events.py, which defines no such name: the
\* ImportError leaves join_room after the membership update (ok = FALSE).
JoinRoom(c, r) ==
    LET live == c \in active_connections
        rm == IF live THEN JoinRooms(rooms, c, r) ELSE rooms
        raised == live /\ r \in DocumentRooms
        targets == IF live /\ ~raised THEN BroadcastTargets(rm, r, c) ELSE {}
        w == SendWritten(active_connections, targets)
        f == SendFailed(active_connections, targets)
    IN
    /\ connection_stats.messages_failed + Cardinality(f) <= MaxFailedStat
    /\ rooms' = rm
    /\ client_metadata' =
         IF live /\ c \in DOMAIN client_metadata
         THEN [client_metadata EXCEPT ![c].rooms = @ \cup {r}]
         ELSE client_metadata
    /\ connection_stats' = StatsAfterSends(connection_stats, Cardinality(w),
                                           Cardinality(f))
    /\ ret' = Ret("join_room", c, r, ~raised, 0, RoomMembers(rooms, r), w, live, TRUE)
    /\ UNCHANGED <<active_connections, user_connections, mgr_running, next_client>>

\* leave_room(client_id, room_id); client_id need not be live.  For a room of
\* DocumentRooms that keeps members the import of UserPresenceEvent raises.
LeaveRoom(c, r) ==
    LET known == r \in DOMAIN rooms
        rm == LeaveRooms(rooms, c, r)
        remains == r \in DOMAIN rm
        raised == known /\ remains /\ r \in DocumentRooms
        targets == IF known /\ remains /\ ~raised
                   THEN BroadcastTargets(rm, r, NoClient) ELSE {}
        w == SendWritten(active_connections, targets)
        f == SendFailed(active_connections, targets)
    IN
    /\ connection_stats.messages_failed + Cardinality(f) <= MaxFailedStat
    /\ rooms' = rm
    /\ client_metadata' =
         IF known /\ c \in DOMAIN client_metadata
         THEN [client_metadata EXCEPT ![c].rooms = @ \ {r}]
         ELSE client_metadata
    /\ connection_stats' = StatsAfterSends(connection_stats, Cardinality(w),
                                           Cardinality(f))
    /\ ret' = Ret("leave_room", c, r, ~raised, 0, RoomMembers(rooms, r), w,
                  c \in active_connections, TRUE)
    /\ UNCHANGED <<active_connections, user_connections, mgr_running, next_client>>

\* send_personal_message(client_id, event); tx: whether the client's transport
\* would accept a write at this moment
Send(c, tx) ==
    LET w == SendWritten(active_connections, {c})
        f == SendFailed(active_connections, {c})
    IN
    /\ connection_stats.messages_failed + Cardinality(f) <= MaxFailedStat
    /\ connection_stats' = StatsAfterSends(connection_stats, Cardinality(w),
                                           Cardinality(f))
    /\ ret' = Ret("send", c, None, c \in w, 0, {}, w, c \in active_connections, tx)
    /\ UNCHANGED <<active_connections, user_connections, rooms, client_metadata,
                   mgr_running, next_client>>

\* broadcast_to_room(room_id, event, exclude_client), every transport healthy
BroadcastToRoom(r, excl) ==
    LET targets == BroadcastTargets(rooms, r, excl)
        w == SendWritten(active_connections, targets)
        f == SendFailed(active_connections, targets)
    IN
    /\ connection_stats.messages_failed + Cardinality(f) <= MaxFailedStat
    /\ connection_stats' = StatsAfterSends(connection_stats, Cardinality(w),
                                           Cardinality(f))
    /\ ret' = Ret("broadcast_to_room", excl, r, TRUE, Cardinality(w),
                  RoomMembers(rooms, r), w, TRUE, TRUE)
    /\ UNCHANGED <<active_connections, user_connections, rooms, client_metadata,
                   mgr_running, next_client>>

\* handle_ping(client_id)
HandlePing(c) ==
    LET known == c \in DOMAIN client_metadata
        targets == IF known THEN {c} ELSE {}
        w == SendWritten(active_connections, targets)
        f == SendFailed(active_connections, targets)
    IN
    /\ connection_stats.messages_failed + Cardinality(f) <= MaxFailedStat
    /\ client_metadata' =
         IF known THEN [client_metadata EXCEPT ![c].last_ping = now]
         ELSE client_metadata
    /\ connection_stats' = StatsAfterSends(connection_stats, Cardinality(w),
                                           Cardinality(f))
    /\ ret' = Ret("ping", c, None, known, 0, {}, w, c \in active_connections, TRUE)
    /\ UNCHANGED <<active_connections, user_connections, rooms, mgr_running,
                   next_client>>

\* a sweep that takes every connection for stale
StaleClientsEvery(md, t) == DOMAIN md

\* _cleanup_stale_connections: the clients one pass of the loop disconnects
StaleClients(md, t) ==
    {c \in DOMAIN md : md[c].last_ping < t - StaleThreshold * 1000}

\* one pass of the _cleanup_stale_connections loop
StaleSweep ==
    LET stale == StaleClients(client_metadata, now) IN
    /\ mgr_running
    /\ SetRegState(DisconnectAll(RegState, stale))
    /\ ret' = Ret("sweep", NoClient, None, TRUE, Cardinality(stale),
                  stale, {}, TRUE, TRUE)
    /\ UNCHANGED <<mgr_running, next_client>>

\* ================================================================== Delivery Queue
\* class MessagePriority
LOW == 1
NORMAL == 2
HIGH == 3
CRITICAL == 4
Priorities == {LOW, NORMAL, HIGH, CRITICAL}

\* QueuedMessage.max_retries (dataclass default; enqueue never sets it)
DefaultMaxRetries == 3
\* MessageQueue(default_ttl=3600), seconds
DefaultTtl == 3600
\* rate_limits default entry: "limit": 100 messages per "window": 60 seconds
RateLimit == 100
RateWindow == 60
\* mark_failed: delay = min(2 ** retry_count, 60) seconds
MaxRetryDelay == 60
\* message_history = deque(maxlen=1000)
HistoryMaxLen == 1000
\* _cleanup_expired: failed messages older than 24 hours (seconds) are dropped
FailedRetention == 86400

\* a heap slot that holds no message
FreeMsg == [id |-> <<>>, target_id |-> None, priority |-> 0, created_at |-> 0,
            expires_at |-> 0, retry_count |-> 0, max_retries |-> 0,
            status |-> "free", callback |-> FALSE]
\* per message: times get_next_batch returned it, the success flags its
\* delivery callback was called with, the retry delays (seconds) it was given
FreeHist == [handouts |-> 0, cbs |-> <<>>, delays |-> <<>>]

\* the queue's tables as one value, for operations that run in sequence
QState == [pq |-> priority_queues, pm |-> pending_messages, fm |-> failed_messages,
           mh |-> message_history, ms |-> msgs, rl |-> rate_limits, tm |-> timers,
           cb |-> in_callback, hs |-> hist, acc |-> accepted]

SeqRange(sq) == {sq[i] : i \in 1..Len(sq)}
DictRange(f) == {f[k] : k \in DOMAIN f}

\* the slots some container still refers to
Referenced(Q) ==
    UNION {SeqRange(Q.pq[p]) : p \in Priorities}
      \cup DictRange(Q.pm) \cup DictRange(Q.fm) \cup SeqRange(Q.mh)
      \cup {t.slot : t \in Q.tm} \cup {c.slot : c \in DOMAIN Q.cb}

\* an object nothing refers to is reclaimed (its slot becomes free)
Reclaim(Q) ==
    LET live == Referenced(Q) IN
    [Q EXCEPT !.ms = [x \in DOMAIN Q.ms |-> IF x \in live THEN Q.ms[x] ELSE FreeMsg],
              !.hs = [x \in DOMAIN Q.hs |-> IF x \in live THEN Q.hs[x] ELSE FreeHist]]

FreeSlots(Q) == {x \in DOMAIN Q.ms : Q.ms[x].status = "free" /\ x \notin Referenced(Q)}

\* _get_total_queue_size
TotalQueueSize(Q) == Len(Q.pq[LOW]) + Len(Q.pq[NORMAL]) + Len(Q.pq[HIGH])
                     + Len(Q.pq[CRITICAL])

\* _check_rate_limit(identifier) at time t: the entry after the call.  A missing
\* entry is created with count 0 and window_start = the time of the call.
RateEntry(rl, ident, t) ==
    LET e == IF ident \in DOMAIN rl THEN rl[ident]
             ELSE [count |-> 0, window_start |-> t]
    IN IF t - e.window_start > RateWindow * 1000
       THEN [count |-> 0, window_start |-> t] ELSE e

\* a limit that lets one message too many through
RateAllowsOneMore(rl, ident, t) == RateEntry(rl, ident, t).count <= RateLimit

\* _check_rate_limit: whether the call is let through
RateAllows(rl, ident, t) == RateEntry(rl, ident, t).count < RateLimit

\* _check_rate_limit: the table after the call
RateAfter(rl, ident, t) ==
    LET e == RateEntry(rl, ident, t) IN
    Put(rl, ident, IF e.count < RateLimit THEN [e EXCEPT !.count = @ + 1] ELSE e)

\* an eviction that looks at the normal tier first
EvictTierNormalFirst(Q) ==
    IF Q.pq[NORMAL] # <<>> THEN NORMAL
    ELSE IF Q.pq[LOW] # <<>> THEN LOW
    ELSE 0

\* _evict_low_priority_messages: the tier a message is evicted from (0: none)
EvictTier(Q) ==
    IF Q.pq[LOW] # <<>> THEN LOW
    ELSE IF Q.pq[NORMAL] # <<>> THEN NORMAL
    ELSE 0

\* _evict_low_priority_messages
Evict(Q) ==
    LET p == EvictTier(Q) IN
    IF p = 0 THEN Q
    ELSE LET x == Head(Q.pq[p])
             mid == Q.ms[x].id
         IN [Q EXCEPT !.pq[p] = Tail(@),
                      !.pm = IF mid \in DOMAIN Q.pm THEN Del(Q.pm, mid) ELSE Q.pm]

\* enqueue: message_id = f"msg_{int(time.time() * 1000)}_{len(self.pending_messages)}"
MessageId(Q, t) == <<t, Cardinality(DOMAIN Q.pm)>>

\* enqueue: expires_at = utcnow() + (ttl or default_ttl) seconds; ttl 0: not given
ExpiresAt(ttl, t) == t + (IF ttl # 0 THEN ttl ELSE DefaultTtl) * 1000

\* enqueue after the rate-limit check passed: eviction at capacity, then the
\* new message is appended to its tier and entered in the pending table
EnqueueAccepted(Q, ident, prio, ttl, hascb, t, cap) ==
    LET Q1 == Reclaim(IF TotalQueueSize(Q) >= cap THEN Evict(Q) ELSE Q)
        x == CHOOSE y \in FreeSlots(Q1) : \A z \in FreeSlots(Q1) : y <= z
        mid == MessageId(Q1, t)
        m == [id |-> mid, target_id |-> ident, priority |-> prio, created_at |-> t,
              expires_at |-> ExpiresAt(ttl, t), retry_count |-> 0,
              max_retries |-> DefaultMaxRetries, status |-> "pending",
              callback |-> hascb]
    IN [Q1 EXCEPT !.pq[prio] = Append(@, x),
                  !.pm = Put(Q1.pm, mid, x),
                  !.ms[x] = m,
                  !.hs[x] = FreeHist]

\* an expiry test that never finds a message expired
ExpiredNever(m, t) == FALSE

\* get_next_batch: message.expires_at and utcnow() > message.expires_at
Expired(m, t) == t > m.expires_at

\* _mark_expired(message)
MarkExpired(Q, x) ==
    LET mid == Q.ms[x].id IN
    [Q EXCEPT !.ms[x].status = "expired",
              !.pm = IF mid \in DOMAIN Q.pm THEN Del(Q.pm, mid) ELSE Q.pm]

\* get_next_batch: the inner while loop over one tier; the batch holds
\* [slot, tier] entries
RECURSIVE DrainTier(_, _, _, _, _)
DrainTier(Q, p, batch, t, bsize) ==
    IF Q.pq[p] = <<>> \/ Len(batch) >= bsize THEN [q |-> Q, batch |-> batch]
    ELSE LET x == Head(Q.pq[p])
             Q1 == [Q EXCEPT !.pq[p] = Tail(@)]
         IN IF Expired(Q.ms[x], t)
            THEN DrainTier(MarkExpired(Q1, x), p, batch, t, bsize)
            ELSE DrainTier([Q1 EXCEPT !.hs[x].handouts = @ + 1], p,
                           Append(batch, [slot |-> x, tier |-> p]), t, bsize)

\* the tiers visited from the lowest to the highest
DrainOrderAscending == <<LOW, NORMAL, HIGH, CRITICAL>>

\* get_next_batch: sorted(MessagePriority, key=value, reverse=True)
DrainOrder == <<CRITICAL, HIGH, NORMAL, LOW>>

\* get_next_batch: the outer loop over the tiers of `order`
RECURSIVE DrainTiers(_, _, _, _, _)
DrainTiers(Q, order, batch, t, bsize) ==
    IF order = <<>> THEN [q |-> Q, batch |-> batch]
    ELSE LET r == DrainTier(Q, Head(order), batch, t, bsize)
         IN DrainTiers(r.q, Tail(order), r.batch, t, bsize)

\* get_next_batch()
GetNextBatch(Q, t, bsize) == DrainTiers(Q, DrainOrder, <<>>, t, bsize)

\* a backoff that shrinks with every retry
RetryDelayShrinking(rc) == MaxRetryDelay \div (2 ^ rc)

\* mark_failed: delay = min(2 ** retry_count, 60), seconds
RetryDelay(rc) == Min(2 ^ rc, MaxRetryDelay)

\* _requeue_after_delay: the tier a retried message is appended to
RetryPriority(prio) == IF prio # CRITICAL THEN LOW ELSE NORMAL

\* mark_failed: whether the message is retried after its count was incremented
ShouldRetry(m) == m.retry_count < m.max_retries

\* message_history.append(message) on a deque(maxlen=1000)
HistoryAppend(mh, x) ==
    IF Len(mh) >= HistoryMaxLen THEN Append(Tail(mh), x) ELSE Append(mh, x)

\* mark_delivered up to and including the call of the delivery callback
DeliveredBegin(Q, mid) ==
    LET x == Q.pm[mid] IN
    [Q EXCEPT !.ms[x].status = "delivered",
              !.hs[x].cbs = IF Q.ms[x].callback THEN Append(@, TRUE) ELSE @]

\* mark_delivered after the callback returned: history, then
\* del self.pending_messages[message_id] (KeyError when the id is gone)
DeliveredEnd(Q, mid, x) ==
    [Q EXCEPT !.mh = HistoryAppend(@, x),
              !.pm = IF mid \in DOMAIN Q.pm THEN Del(Q.pm, mid) ELSE Q.pm]

\* mark_failed(message_id) for a pending id, at time t
Failed(Q, mid, t) ==
    LET x == Q.pm[mid]
        m == [Q.ms[x] EXCEPT !.retry_count = @ + 1]
    IN IF ShouldRetry(m)
       THEN [Q EXCEPT !.ms[x] = m,
                      !.tm = @ \cup {[slot |-> x,
                                      due |-> t + RetryDelay(m.retry_count) * 1000]},
                      !.hs[x].delays = Append(@, RetryDelay(m.retry_count))]
       ELSE [Q EXCEPT !.ms[x] = [m EXCEPT !.status = "failed"],
                      !.fm = Put(Q.fm, mid, x),
                      !.pm = Del(Q.pm, mid),
                      !.hs[x].cbs = IF m.callback THEN Append(@, FALSE) ELSE @]

\* _requeue_after_delay after the sleep, for the timer tmr
Requeued(Q, tmr, running) ==
    LET x == tmr.slot
        Q1 == [Q EXCEPT !.tm = @ \ {tmr}]
    IN IF running /\ Q.ms[x].id \in DOMAIN Q.pm
       THEN [Q1 EXCEPT !.pq[RetryPriority(Q.ms[x].priority)] = Append(@, x)]
       ELSE Q1

\* _cleanup_expired: one pass at time t
RECURSIVE ExpireAll(_, _)
ExpireAll(Q, ids) ==
    IF ids = {} THEN Q
    ELSE LET mid == CHOOSE i \in ids : TRUE
         IN ExpireAll(MarkExpired(Q, Q.pm[mid]), ids \ {mid})

CleanupExpiredPass(Q, t) ==
    LET expired == {mid \in DOMAIN Q.pm : Expired(Q.ms[Q.pm[mid]], t)}
        Q1 == ExpireAll(Q, expired)
        old == {mid \in DOMAIN Q1.fm :
                  t - Q1.ms[Q1.fm[mid]].created_at > FailedRetention * 1000}
    IN [Q1 EXCEPT !.fm = [k \in DOMAIN Q1.fm \ old |-> Q1.fm[k]]]

\* _flush_remaining_messages: batches are taken until the queues are empty
RECURSIVE Flush(_, _, _)
Flush(Q, t, bsize) ==
    IF TotalQueueSize(Q) = 0 THEN Q
    ELSE LET r == GetNextBatch(Q, t, bsize)
         IN IF r.batch = <<>> THEN r.q ELSE Flush(r.q, t, bsize)

\* the queue's tables become Q (objects no container holds are reclaimed)
SetQState(Q0) ==
    LET Q == Reclaim(Q0) IN
    /\ priority_queues' = Q.pq
    /\ pending_messages' = Q.pm
    /\ failed_messages' = Q.fm
    /\ message_history' = Q.mh
    /\ msgs' = Q.ms
    /\ rate_limits' = Q.rl
    /\ timers' = Q.tm
    /\ in_callback' = Q.cb
    /\ hist' = Q.hs
    /\ accepted' = Q.acc

\* the outcome record of a queue operation
QRet(op, mid, ok, batch) == [op |-> op, id |-> mid, ok |-> ok, batch |-> batch]

\* no message id
NoId == <<>>
\* qret after an operation that returns nothing
NoRet == QRet("none", NoId, TRUE, <<>>)

\* the ids of the messages the heap holds
KnownIds == {msgs[x].id : x \in {y \in DOMAIN msgs : msgs[y].status # "free"}}

\* one more accepted enqueue for ident at time t (ghost: the accepted enqueues
\* of the last RateWindow seconds, per time of acceptance)
AcceptedAdd(acc, ident, t) ==
    LET a == IF ident \in DOMAIN acc THEN acc[ident] ELSE EmptyDict
        recent == [s \in {u \in DOMAIN a : u >= t - RateWindow * 1000} |-> a[s]]
    IN Put(acc, ident, Put(recent, t, (IF t \in DOMAIN a THEN a[t] ELSE 0) + 1))

\* QueuedMessage.to_dict(): the fields of the message without its
\* delivery_callback
to_dict(m) ==
    [id |-> m.id, target_id |-> m.target_id, priority |-> m.priority,
     created_at |-> m.created_at, expires_at |-> m.expires_at,
     retry_count |-> m.retry_count, max_retries |-> m.max_retries,
     status |-> m.status]

\* QueuedMessage.from_dict(data): delivery_callback takes its default, None
from_dict(d) ==
    [id |-> d.id, target_id |-> d.target_id, priority |-> d.priority,
     created_at |-> d.created_at, expires_at |-> d.expires_at,
     retry_count |-> d.retry_count, max_retries |-> d.max_retries,
     status |-> d.status, callback |-> FALSE]

\* msgpack.packb(message.to_dict()) returns: the dict holds
\* event.model_dump(), whose timestamp field is a datetime (events.py:68),
\* which packb does not serialize: it raises TypeError for every message
packb(d) == FALSE

\* enqueue: if enable_persistence and redis_client, _persist_message(m); an
\* exception of packb or setex is logged and nothing is stored.  (The key's
\* own lifetime, default_ttl seconds, is beyond the clock of every
\* specification.)
PersistMessage(P, m) ==
    IF P.enabled /\ packb(to_dict(m))
    THEN [P EXCEPT !.store = Put(@, m.id, to_dict(m))]
    ELSE P

\* mark_delivered: if enable_persistence and redis_client,
\* _remove_persisted_message(message_id)
RemovePersistedMessage(P, mid) ==
    IF P.enabled /\ mid \in DOMAIN P.store
    THEN [P EXCEPT !.store = Del(@, mid)]
    ELSE P

\* the queue after construction with nslots heap slots; mirrored: it is built
\* with enable_persistence=True and a redis_client
InitQueue(nslots, cap, bsizes, mirrored) ==
    /\ priority_queues = [p \in Priorities |-> <<>>]
    /\ pending_messages = EmptyDict
    /\ failed_messages = EmptyDict
    /\ message_history = <<>>
    /\ msgs = [x \in 1..nslots |-> FreeMsg]
    /\ rate_limits = EmptyDict
    /\ timers = {}
    /\ in_callback = EmptyDict
    /\ batch_size \in bsizes
    /\ max_queue_size = cap
    /\ qret = QRet("init", NoId, FALSE, <<>>)
    /\ hist = [x \in 1..nslots |-> FreeHist]
    /\ accepted = EmptyDict
    /\ persistence = [enabled |-> mirrored, store |-> EmptyDict]

\* enqueue(event, target_type, target_id, priority, ttl, delivery_callback)
Enqueue(ident, prio, ttl, hascb) ==
    IF ~RateAllows(rate_limits, ident, now)
    THEN /\ rate_limits' = RateAfter(rate_limits, ident, now)
         /\ qret' = QRet("enqueue", NoId, FALSE, <<>>)
         /\ UNCHANGED <<priority_queues, pending_messages, failed_messages,
                        message_history, msgs, timers, in_callback, batch_size,
                        max_queue_size, hist, accepted, persistence>>
    ELSE LET Q0 == [QState EXCEPT !.rl = RateAfter(rate_limits, ident, now),
                                  !.acc = AcceptedAdd(accepted, ident, now)]
             Qe == Reclaim(IF TotalQueueSize(Q0) >= max_queue_size
                           THEN Evict(Q0) ELSE Q0)
         IN /\ FreeSlots(Qe) # {}
            /\ SetQState(EnqueueAccepted(Q0, ident, prio, ttl, hascb, now,
                                         max_queue_size))
            /\ qret' = QRet("enqueue", MessageId(Qe, now), TRUE, <<>>)
            /\ persistence' = PersistMessage(persistence,
                                  msgs'[pending_messages'[MessageId(Qe, now)]])
            /\ UNCHANGED <<batch_size, max_queue_size>>

\* get_next_batch() called by a consumer
TakeBatch ==
    LET r == GetNextBatch(QState, now, batch_size) IN
    /\ SetQState(r.q)
    /\ qret' = QRet("get_next_batch", NoId, TRUE, r.batch)
    /\ UNCHANGED <<batch_size, max_queue_size, persistence>>

\* one pass of the _process_queue loop: the batch is taken and dropped
ProcessQueuePass ==
    LET r == GetNextBatch(QState, now, batch_size) IN
    /\ q_running
    /\ SetQState(r.q)
    /\ qret' = QRet("process_queue", NoId, TRUE, r.batch)
    /\ UNCHANGED <<batch_size, max_queue_size, persistence>>

BagAdd(b, e) == IF e \in DOMAIN b THEN [b EXCEPT ![e] = @ + 1] ELSE Put(b, e, 1)
BagRemove(b, e) == IF b[e] > 1 THEN [b EXCEPT ![e] = @ - 1] ELSE Del(b, e)

\* the number of mark_delivered calls suspended in a callback
Suspended(b) == Cardinality({<<e, k>> \in (DOMAIN b) \X (1..MaxSuspended) : k <= b[e]})

\* mark_delivered(message_id); suspends: the delivery callback awaits
\* something, so other tasks run before mark_delivered continues
MarkDelivered(mid, suspends) ==
    IF mid \notin DOMAIN pending_messages
    THEN /\ qret' = NoRet
         /\ UNCHANGED <<priority_queues, pending_messages, failed_messages,
                        message_history, msgs, rate_limits, timers, in_callback,
                        batch_size, max_queue_size, hist, accepted, persistence>>
    ELSE LET x == pending_messages[mid]
             Q1 == DeliveredBegin(QState, mid)
         IN /\ suspends => Suspended(in_callback) < MaxSuspended
            /\ SetQState(IF msgs[x].callback /\ suspends
                         THEN [Q1 EXCEPT !.cb = BagAdd(@, [id |-> mid, slot |-> x])]
                         ELSE DeliveredEnd(Q1, mid, x))
            /\ qret' = NoRet
            /\ persistence' = IF msgs[x].callback /\ suspends THEN persistence
                               ELSE RemovePersistedMessage(persistence, mid)
            /\ UNCHANGED <<batch_size, max_queue_size>>

\* mark_delivered continues after its delivery callback returned; ok = FALSE:
\* del self.pending_messages[message_id] raised KeyError
MarkDeliveredResume(e) ==
    /\ e \in DOMAIN in_callback
    /\ SetQState(DeliveredEnd([QState EXCEPT !.cb = BagRemove(@, e)], e.id, e.slot))
    /\ qret' = NoRet
    /\ persistence' = IF e.id \in DOMAIN pending_messages
                       THEN RemovePersistedMessage(persistence, e.id)
                       ELSE persistence
    /\ UNCHANGED <<batch_size, max_queue_size>>

\* mark_failed(message_id)
MarkFailed(mid) ==
    IF mid \notin DOMAIN pending_messages
    THEN /\ qret' = NoRet
         /\ UNCHANGED <<priority_queues, pending_messages, failed_messages,
                        message_history, msgs, rate_limits, timers, in_callback,
                        batch_size, max_queue_size, hist, accepted, persistence>>
    ELSE /\ SetQState(Failed(QState, mid, now))
         /\ qret' = NoRet
         /\ UNCHANGED <<batch_size, max_queue_size, persistence>>

\* a _requeue_after_delay task wakes up after its sleep
Requeue(tmr) ==
    /\ tmr \in timers
    /\ now >= tmr.due
    /\ SetQState(Requeued(QState, tmr, q_running))
    /\ qret' = NoRet
    /\ UNCHANGED <<batch_size, max_queue_size, persistence>>

\* one pass of the _cleanup_expired loop
CleanupExpired ==
    /\ q_running
    /\ SetQState(CleanupExpiredPass(QState, now))
    /\ qret' = NoRet
    /\ UNCHANGED <<batch_size, max_queue_size, persistence>>

\* MessageQueue.start()
QueueStart ==
    /\ ~q_running
    /\ q_running' = TRUE
    /\ UNCHANGED <<queueVars, regVars, now, zoneVars, progVars>>

\* MessageQueue.stop(): _running = False, then _flush_remaining_messages
QueueStop ==
    /\ q_running
    /\ q_running' = FALSE
    /\ SetQState(Flush(QState, now, batch_size))
    /\ qret' = NoRet
    /\ UNCHANGED <<batch_size, max_queue_size, persistence, regVars, now, zoneVars,
                   progVars>>

\* ------------------------------------------------------------------ conflict resolver
\* Field names are sequences of the words between underscores, so that
\* f"{field}_local" is Append(field, "local"): <<"a", "local">> is the field
\* named a_local.  A change set in iteration order is a sequence of
\* <<field, value>> pairs with distinct fields.
AsDict(changes) ==
    [f \in {changes[i][1] : i \in 1..Len(changes)} |->
        changes[CHOOSE i \in 1..Len(changes) : changes[i][1] = f][2]]

\* f"{field}_local", f"{field}_conflict"
ShadowKey(field, suffix) == Append(field, suffix)

\* detect_conflict returning None, as a conflict dict without a type; a key
\* missing from a conflict dict holds its .get default
NoConflict ==
    [type |-> None, local_version |-> 0, remote_version |-> 0,
     locked_by |-> None, conflicting_fields |-> {}, severity |-> None]

\* detect_conflict: the fields of local_changes that remote_changes holds
\* with another value
ConflictingFields(local, remote) ==
    {local[i][1] : i \in {j \in 1..Len(local) :
                             /\ local[j][1] \in DOMAIN remote
                             /\ local[j][2] # remote[local[j][1]]}}

\* a detect_conflict that tests the lock before the versions
detect_conflict_lock_first(locks, z, lv, rv, local, remote) ==
    IF z \in DOMAIN locks
    THEN [NoConflict EXCEPT !.type = "locked_zone", !.locked_by = locks[z],
                            !.severity = "medium"]
    ELSE IF lv # rv
    THEN [NoConflict EXCEPT !.type = "version_mismatch", !.local_version = lv,
                            !.remote_version = rv, !.severity = "high"]
    ELSE IF ConflictingFields(local, remote) # {}
    THEN [NoConflict EXCEPT !.type = "concurrent_edit",
                            !.conflicting_fields = ConflictingFields(local, remote),
                            !.severity = "high"]
    ELSE NoConflict

\* ConflictResolver.detect_conflict
detect_conflict(locks, z, lv, rv, local, remote) ==
    IF lv # rv
    THEN [NoConflict EXCEPT !.type = "version_mismatch", !.local_version = lv,
                            !.remote_version = rv, !.severity = "high"]
    ELSE IF z \in DOMAIN locks
    THEN [NoConflict EXCEPT !.type = "locked_zone", !.locked_by = locks[z],
                            !.severity = "medium"]
    ELSE IF ConflictingFields(local, remote) # {}
    THEN [NoConflict EXCEPT !.type = "concurrent_edit",
                            !.conflicting_fields = ConflictingFields(local, remote),
                            !.severity = "high"]
    ELSE NoConflict

\* resolve_conflict, MERGE: the loop over local_changes.items()
RECURSIVE MergeLocal(_, _, _, _)
MergeLocal(acc, local, remote, cf) ==
    IF local = <<>> THEN acc
    ELSE LET f == Head(local)[1]
             v == Head(local)[2]
             nxt == IF f \notin DOMAIN remote
                    THEN [acc EXCEPT !.changes = Put(@, f, v)]
                    ELSE IF f \in cf
                    THEN [changes |-> Put(Put(acc.changes, ShadowKey(f, "local"), v),
                                          ShadowKey(f, "conflict"), TRUE),
                          requires_intervention |-> TRUE]
                    ELSE acc
         IN MergeLocal(nxt, Tail(local), remote, cf)

\* ConflictResolver.resolve_conflict: (resolved_changes, requires_intervention)
resolve_conflict(conflict, local, remote, strategy) ==
    IF strategy = "last_write_wins"
    THEN [changes |-> remote, requires_intervention |-> FALSE]
    ELSE IF strategy = "merge"
    THEN MergeLocal([changes |-> remote, requires_intervention |-> FALSE],
                    local, remote, conflict.conflicting_fields)
    ELSE IF strategy = "lock_based"
    THEN IF conflict.type = "locked_zone"
         THEN [changes |-> EmptyDict, requires_intervention |-> TRUE]
         ELSE [changes |-> AsDict(local), requires_intervention |-> FALSE]
    ELSE [changes |-> Put(Put(Put(EmptyDict, <<"local", "changes">>, local),
                              <<"remote", "changes">>, remote),
                          <<"conflict">>, conflict),
          requires_intervention |-> TRUE]

\* an acquire_lock that takes the lock from its holder
acquire_lock_stealing(locks, z, u) == [locks |-> Put(locks, z, u), ok |-> TRUE]

\* ConflictResolver.acquire_lock
acquire_lock(locks, z, u) ==
    IF z \in DOMAIN locks /\ locks[z] # u
    THEN [locks |-> locks, ok |-> FALSE]
    ELSE [locks |-> Put(locks, z, u), ok |-> TRUE]

\* a release_lock that does not look at the caller
release_lock_by_anyone(locks, z, u) ==
    IF z \in DOMAIN locks
    THEN [locks |-> Del(locks, z), ok |-> TRUE]
    ELSE [locks |-> locks, ok |-> FALSE]

\* ConflictResolver.release_lock
release_lock(locks, z, u) ==
    IF z \in DOMAIN locks /\ locks[z] = u
    THEN [locks |-> Del(locks, z), ok |-> TRUE]
    ELSE [locks |-> locks, ok |-> FALSE]

\* ConflictResolver.get_version
get_version(versions, z) == IF z \in DOMAIN versions THEN versions[z] ELSE 0

\* ConflictResolver.record_conflict
record_conflict(history, z, type, users, resolution, t) ==
    Append(history, [zone_id |-> z, timestamp |-> t, conflict_type |-> type,
                     users_involved |-> users, resolution |-> resolution])

\* the outcome of a resolver or zone service call, with its arguments
NoCRet ==
    [op |-> None, zone |-> None, user |-> None, ok |-> FALSE,
     conflict |-> NoConflict, changes |-> EmptyDict,
     requires_intervention |-> FALSE, applied |-> FALSE, raised |-> None,
     version |-> 0, submitted |-> 0, current |-> 0,
     local |-> <<>>, remote |-> EmptyDict, given |-> NoConflict,
     strategy |-> None]

\* no edit is being checked
NoEdit == [local |-> <<>>, remote |-> EmptyDict]

\* ConflictResolver() and ZoneService(conflict_resolver, connection_manager)
\* after construction
InitZoneService(res, mgr) ==
    /\ zone_versions = EmptyDict
    /\ zone_locks = EmptyDict
    /\ conflict_history = <<>>
    /\ zs_zone_versions = EmptyDict
    /\ demo_zones = EmptyDict
    /\ svc_resolver = res
    /\ svc_manager = mgr
    /\ cret = NoCRet
    /\ pending_edit = NoEdit

\* conflict_resolver.detect_conflict(z, lv, rv, local, remote), called for an
\* edit that user u submitted (the user is no argument of the call)
DetectConflict(u, z, lv, rv, local, remote) ==
    /\ cret' = [NoCRet EXCEPT !.op = "detect_conflict", !.zone = z, !.user = u,
                              !.submitted = lv, !.current = rv,
                              !.local = local, !.remote = remote,
                              !.conflict = detect_conflict(zone_locks, z, lv, rv,
                                                           local, remote)]
    /\ UNCHANGED <<zone_versions, zone_locks, conflict_history, zs_zone_versions,
                   demo_zones, svc_resolver, svc_manager,
                   pending_edit>>

\* conflict_resolver.resolve_conflict(conflict, local, remote, strategy)
ResolveConflict(conflict, local, remote, strategy) ==
    LET r == resolve_conflict(conflict, local, remote, strategy) IN
    /\ cret' = [NoCRet EXCEPT !.op = "resolve_conflict", !.given = conflict,
                              !.local = local, !.remote = remote,
                              !.strategy = strategy, !.changes = r.changes,
                              !.requires_intervention = r.requires_intervention]
    /\ UNCHANGED <<zone_versions, zone_locks, conflict_history, zs_zone_versions,
                   demo_zones, svc_resolver, svc_manager,
                   pending_edit>>

\* conflict_resolver.acquire_lock(z, u)
AcquireLock(z, u) ==
    LET r == acquire_lock(zone_locks, z, u) IN
    /\ zone_locks' = r.locks
    /\ cret' = [NoCRet EXCEPT !.op = "acquire_lock", !.zone = z, !.user = u,
                              !.ok = r.ok]
    /\ UNCHANGED <<zone_versions, conflict_history, zs_zone_versions,
                   demo_zones, svc_resolver, svc_manager,
                   pending_edit>>

\* conflict_resolver.release_lock(z, u)
ReleaseLock(z, u) ==
    LET r == release_lock(zone_locks, z, u) IN
    /\ zone_locks' = r.locks
    /\ cret' = [NoCRet EXCEPT !.op = "release_lock", !.zone = z, !.user = u,
                              !.ok = r.ok]
    /\ UNCHANGED <<zone_versions, conflict_history, zs_zone_versions,
                   demo_zones, svc_resolver, svc_manager,
                   pending_edit>>

\* conflict_resolver.update_version(z, v)
UpdateVersion(z, v) ==
    /\ zone_versions' = Put(zone_versions, z, v)
    /\ cret' = [NoCRet EXCEPT !.op = "update_version", !.zone = z,
                              !.submitted = v]
    /\ UNCHANGED <<zone_locks, conflict_history, zs_zone_versions,
                   demo_zones, svc_resolver, svc_manager,
                   pending_edit>>

\* conflict_resolver.get_version(z)
GetVersion(z) ==
    /\ cret' = [NoCRet EXCEPT !.op = "get_version", !.zone = z,
                              !.version = get_version(zone_versions, z)]
    /\ UNCHANGED <<zone_versions, zone_locks, conflict_history, zs_zone_versions,
                   demo_zones, svc_resolver, svc_manager,
                   pending_edit>>

\* ------------------------------------------------------------------ zone service
\* update_zone_collaborative called without a version argument
NoVersion == -1

\* update_zone, demo mode: setattr(existing_zone, field, value) for each field
ApplyUpdate(zone, changes) ==
    [f \in DOMAIN zone \cup DOMAIN changes |->
        IF f \in DOMAIN changes THEN changes[f] ELSE zone[f]]

\* ZoneService.create_zone: a zone with the content given
CreateZone(z, content) ==
    /\ z \notin DOMAIN demo_zones
    /\ demo_zones' = Put(demo_zones, z, Put(EmptyDict, <<"content">>, content))
    /\ cret' = [NoCRet EXCEPT !.op = "create_zone", !.zone = z, !.ok = TRUE]
    /\ UNCHANGED <<zone_versions, zone_locks, conflict_history, zs_zone_versions,
                   svc_resolver, svc_manager,
                   pending_edit>>

\* an edit that leaves the version as it is
new_version_same(versions, z) == get_version(versions, z)

\* update_zone_collaborative: new_version = self._zone_versions.get(id, 0) + 1
new_version(versions, z) == get_version(versions, z) + 1

\* ZoneService.update_zone_collaborative(z, zone_update, u, client, ver); the
\* zone update is the sequence zone_update.model_dump(exclude_none=True)
UpdateZoneCollaborative(z, upd, u, ver) ==
    LET current == get_version(zs_zone_versions, z)
        checked == svc_resolver /\ ver # NoVersion /\ ver < current
        conflict == IF checked
                    THEN detect_conflict(zone_locks, z, ver, current, upd, EmptyDict)
                    ELSE NoConflict
        res == IF conflict.type # None
               THEN resolve_conflict(conflict, upd, EmptyDict, "merge")
               ELSE [changes |-> AsDict(upd), requires_intervention |-> FALSE]
        nv == new_version(zs_zone_versions, z)
        call == [NoCRet EXCEPT !.op = "update_zone_collaborative", !.zone = z,
                               !.user = u, !.submitted = ver, !.current = current,
                               !.local = upd]
    IN IF z \notin DOMAIN demo_zones
       THEN /\ cret' = [call EXCEPT !.raised = "ZoneNotFoundError"]
            /\ UNCHANGED <<zone_versions, zone_locks, conflict_history,
                           zs_zone_versions, demo_zones, svc_resolver, svc_manager,
                   pending_edit>>
       ELSE IF res.requires_intervention
       THEN /\ cret' = [call EXCEPT !.conflict = conflict,
                                    !.requires_intervention = TRUE]
            /\ UNCHANGED <<zone_versions, zone_locks, conflict_history,
                           zs_zone_versions, demo_zones, svc_resolver, svc_manager,
                   pending_edit>>
       ELSE /\ demo_zones' = Put(demo_zones, z, ApplyUpdate(demo_zones[z], res.changes))
            /\ zs_zone_versions' = Put(zs_zone_versions, z, nv)
            /\ IF svc_manager
               THEN /\ cret' = [call EXCEPT !.applied = TRUE, !.version = nv,
                                            !.raised = "ImportError"]
                    /\ UNCHANGED conflict_history
               ELSE /\ cret' = [call EXCEPT !.applied = TRUE, !.ok = TRUE,
                                            !.version = nv,
                                            !.conflict = conflict,
                                            !.changes = res.changes]
                    /\ conflict_history' =
                          IF svc_resolver /\ conflict.type # None
                          THEN record_conflict(conflict_history, z, conflict.type,
                                               <<u>>,
                                               [strategy |-> "merge",
                                                version |-> nv], now)
                          ELSE conflict_history
            /\ UNCHANGED <<zone_versions, zone_locks, svc_resolver, svc_manager,
                   pending_edit>>

\* ZoneService.lock_zone(z, u)
LockZone(z, u) ==
    LET r == IF svc_resolver THEN acquire_lock(zone_locks, z, u)
             ELSE [locks |-> zone_locks, ok |-> TRUE]
        raises == svc_resolver /\ r.ok /\ svc_manager /\ z \in DOMAIN demo_zones
    IN /\ zone_locks' = r.locks
       /\ cret' = [NoCRet EXCEPT !.op = "lock_zone", !.zone = z, !.user = u,
                                 !.ok = r.ok /\ ~raises,
                                 !.raised = IF raises THEN "ImportError" ELSE None]
       /\ UNCHANGED <<zone_versions, conflict_history, zs_zone_versions,
                      demo_zones, svc_resolver, svc_manager,
                   pending_edit>>

\* ZoneService.unlock_zone(z, u)
UnlockZone(z, u) ==
    LET r == IF svc_resolver THEN release_lock(zone_locks, z, u)
             ELSE [locks |-> zone_locks, ok |-> TRUE]
        raises == svc_resolver /\ r.ok /\ svc_manager /\ z \in DOMAIN demo_zones
    IN /\ zone_locks' = r.locks
       /\ cret' = [NoCRet EXCEPT !.op = "unlock_zone", !.zone = z, !.user = u,
                                 !.ok = r.ok /\ ~raises,
                                 !.raised = IF raises THEN "ImportError" ELSE None]
       /\ UNCHANGED <<zone_versions, conflict_history, zs_zone_versions,
                      demo_zones, svc_resolver, svc_manager,
                   pending_edit>>

\* a step of the resolver or the zone service alone
ZonesOnly == UNCHANGED <<regVars, queueVars, q_running, now, progVars>>

\* ------------------------------------------------------------------ progress emitter
\* ProcessingProgressEmitter keeps one entry per tracked job.  Of the fields of
\* an entry the model keeps user_id, total_pages, current_page, stage and
\* progress_percentage; the timestamps, the zone counters and the error list
\* are written by the handlers and read by no handler's condition.

\* stage_progress of update_stage: the percentage a stage starts at
stage_progress ==
    "initializing" :> 5 @@ "preprocessing" :> 15 @@ "analyzing" :> 25 @@
    "zone_detection" :> 45 @@ "text_extraction" :> 75 @@
    "post_processing" :> 90 @@ "finalizing" :> 95 @@ "completed" :> 100

\* emit_progress_update(job_id): returns at once for an unknown job; for a
\* tracked job it builds ProcessingProgressEvent(type=, data=, user_id=,
\* room_id=), whose constructor requires document_id, job_id and progress, so
\* the call raises TypeError before anything is sent.  The value is what the
\* call raises.
emit_progress_update(jobs, j) ==
    IF j \in DOMAIN jobs THEN "TypeError" ELSE None

\* ProcessingProgressEmitter(connection_manager) after construction
InitEmitter ==
    /\ active_jobs = EmptyDict
    /\ cleanup_tasks = {}
    /\ pret = [op |-> "init", job |-> None, raised |-> None]

\* a step of the emitter alone
EmitterOnly == UNCHANGED <<regVars, queueVars, q_running, now, zoneVars>>

\* start_job_tracking(job_id, document_id, user_id, total_pages): the entry is
\* written (over an entry of the same job id, if any); join_room(user_id,
\* "job_<job_id>") names a user id where the registry looks up a client id (a
\* uuid4 made by connect), finds no such connection and changes nothing; the
\* initial emit_progress_update raises
StartJobTracking(j, u, tp) ==
    /\ active_jobs' = Put(active_jobs, j,
                          [user_id |-> u, total_pages |-> tp, current_page |-> 0,
                           stage |-> "initializing", progress_percentage |-> 0])
    /\ pret' = [op |-> "start_job_tracking", job |-> j,
                raised |-> emit_progress_update(active_jobs', j)]
    /\ UNCHANGED cleanup_tasks

\* update_stage(job_id, stage, message)
UpdateStage(j, stage) ==
    /\ active_jobs' =
          IF j \in DOMAIN active_jobs
          THEN [active_jobs EXCEPT ![j] =
                   [@ EXCEPT !.stage = stage,
                             !.progress_percentage =
                                 IF stage # "failed" THEN stage_progress[stage]
                                 ELSE @]]
          ELSE active_jobs
    /\ pret' = [op |-> "update_stage", job |-> j,
                raised |-> emit_progress_update(active_jobs, j)]
    /\ UNCHANGED cleanup_tasks

\* update_page_progress without the cap of 95
page_percentage_uncapped(job, cp) ==
    LET stage_weight == "zone_detection" :> 30 @@ "text_extraction" :> 40 @@
                        "post_processing" :> 20
        base_progress == "zone_detection" :> 25 @@ "text_extraction" :> 45 @@
                         "post_processing" :> 75
    IN  IF job.total_pages > 0 /\ job.stage \in DOMAIN stage_weight
        THEN base_progress[job.stage]
               + (cp * 100 * stage_weight[job.stage]) \div (job.total_pages * 100)
        ELSE job.progress_percentage

\* the percentage update_page_progress leaves in the entry job when the page
\* counter becomes cp.  The weights are in hundredths (0.3, 0.4, 0.2); the
\* quotient is exact for the page counts the specifications draw.
page_percentage(job, cp) ==
    LET stage_weight == "zone_detection" :> 30 @@ "text_extraction" :> 40 @@
                        "post_processing" :> 20
        base_progress == "zone_detection" :> 25 @@ "text_extraction" :> 45 @@
                         "post_processing" :> 75
    IN  IF job.total_pages > 0 /\ job.stage \in DOMAIN stage_weight
        THEN Min(base_progress[job.stage]
                   + (cp * 100 * stage_weight[job.stage]) \div (job.total_pages * 100),
                 95)
        ELSE job.progress_percentage

\* update_page_progress(job_id, current_page, zones_on_page)
UpdatePageProgress(j, cp) ==
    /\ active_jobs' =
          IF j \in DOMAIN active_jobs
          THEN [active_jobs EXCEPT ![j] =
                   [@ EXCEPT !.current_page = cp,
                             !.progress_percentage =
                                 page_percentage(active_jobs[j], cp)]]
          ELSE active_jobs
    /\ pret' = [op |-> "update_page_progress", job |-> j,
                raised |-> emit_progress_update(active_jobs, j)]
    /\ UNCHANGED cleanup_tasks

\* add_zone_processed(job_id, zone_id, ...): the zone event is built with
\* EventType.ZONE_PROCESSED, which the enumeration does not have
AddZoneProcessed(j) ==
    /\ pret' = [op |-> "add_zone_processed", job |-> j,
                raised |-> IF j \in DOMAIN active_jobs THEN "AttributeError"
                           ELSE None]
    /\ UNCHANGED <<active_jobs, cleanup_tasks>>

\* add_error(job_id, error_message, error_code, recoverable)
AddError(j, recoverable) ==
    /\ active_jobs' =
          IF j \in DOMAIN active_jobs /\ ~recoverable
          THEN [active_jobs EXCEPT ![j].stage = "failed"]
          ELSE active_jobs
    /\ pret' = [op |-> "add_error", job |-> j,
                raised |-> emit_progress_update(active_jobs, j)]
    /\ UNCHANGED cleanup_tasks

\* complete_job(job_id, success, final_message): the entry is marked, then
\* emit_progress_update raises, so the create_task of the cleanup that follows
\* it is not reached
CompleteJob(j, success) ==
    /\ active_jobs' =
          IF j \in DOMAIN active_jobs
          THEN [active_jobs EXCEPT ![j] =
                   [@ EXCEPT !.stage = IF success THEN "completed" ELSE "failed",
                             !.progress_percentage = IF success THEN 100 ELSE @]]
          ELSE active_jobs
    /\ pret' = [op |-> "complete_job", job |-> j,
                raised |-> emit_progress_update(active_jobs, j)]
    /\ cleanup_tasks' =
          IF j \in DOMAIN active_jobs /\ emit_progress_update(active_jobs', j) = None
          THEN cleanup_tasks \cup {[job |-> j, wake |-> now + 300000]}
          ELSE cleanup_tasks

\* cancel_job(job_id): add_error(recoverable=False) raises, so the
\* complete_job(success=False) that follows it is not reached
CancelJob(j) ==
    /\ active_jobs' =
          IF j \in DOMAIN active_jobs
          THEN [active_jobs EXCEPT ![j].stage = "failed"]
          ELSE active_jobs
    /\ pret' = [op |-> "cancel_job", job |-> j,
                raised |-> emit_progress_update(active_jobs, j)]
    /\ UNCHANGED cleanup_tasks

\* ------------------------------------------------------------------ retry specification
\* Messages are enqueued, handed out, failed and re-queued by the retry timers.
MaxRetrySlots == 2
RetryTickMs == 4000
MaxRetryNow == 8000
\* the constructor's defaults (queue.py:86, 88)
DefaultMaxQueueSize == 10000
DefaultBatchSize == 100
QueueTargets == {"t1"}
RetryPriorities == {HIGH, CRITICAL}

InitRetry ==
    /\ InitRegistry
    /\ InitZoneService(FALSE, FALSE)
    /\ InitEmitter
    /\ InitQueue(MaxRetrySlots, DefaultMaxQueueSize, {DefaultBatchSize}, FALSE)
    /\ q_running = FALSE
    /\ now = 0

TickRetry ==
    /\ now + RetryTickMs <= MaxRetryNow
    /\ now' = now + RetryTickMs
    /\ UNCHANGED <<regVars, queueVars, q_running, zoneVars, progVars>>

\* a step of the queue alone: the registry, the queue's run flag and the
\* clock stay as they are
RegistryIdle == UNCHANGED <<regVars, q_running, now, zoneVars, progVars>>

NextRetry ==
    \/ \E i \in QueueTargets, p \in RetryPriorities :
          Enqueue(i, p, 0, TRUE) /\ RegistryIdle
    \/ TakeBatch /\ RegistryIdle
    \/ \E mid \in KnownIds : MarkFailed(mid) /\ RegistryIdle
    \/ \E tmr \in timers : Requeue(tmr) /\ RegistryIdle
    \/ QueueStart
    \/ TickRetry

SpecRetry == InitRetry /\ [][NextRetry]_vars

\* ------------------------------------------------------------------ claims on retries
UsedSlots == {x \in DOMAIN msgs : msgs[x].status # "free"}

\* the number of times slot x occurs in the sequence sq
Occurrences(sq, x) == Cardinality({i \in 1..Len(sq) : sq[i] = x})

NonDecreasing(sq) == \A i \in 1..(Len(sq) - 1) : sq[i] <= sq[i + 1]

\* C7: a message that is never marked delivered is handed out by
\* get_next_batch at most max_retries + 1 times, its retry delays never
\* shrink, its completion callback is called at most once, and once it has
\* permanently failed the callback has been called exactly once, with
\* success = false.
C7_RetryBound ==
    \A x \in UsedSlots :
        TRUE \notin SeqRange(hist[x].cbs) =>
            /\ hist[x].handouts <= msgs[x].max_retries + 1
            /\ NonDecreasing(hist[x].delays)
            /\ Len(hist[x].cbs) <= 1
            /\ msgs[x].status = "failed" => hist[x].cbs = <<FALSE>>

\* C7 witness: a message was handed out three times, failed every time with
\* delays 2 s and 4 s, and its callback was told of the failure
C7_Witness ==
    \E x \in UsedSlots :
        /\ msgs[x].status = "failed"
        /\ hist[x].handouts = 3
        /\ hist[x].delays = <<2, 4>>
        /\ hist[x].cbs = <<FALSE>>

\* C8, for one mark_failed(mid) of a pending message
C8_FailStep(mid) ==
    LET x == pending_messages[mid]
        rc == msgs[x].retry_count + 1
    IN /\ msgs'[x].retry_count = rc
       /\ rc < msgs[x].max_retries =>
            /\ [slot |-> x, due |-> now + Min(2 ^ rc, 60) * 1000] \in timers'
            /\ msgs'[x].status = "pending"
       /\ rc >= msgs[x].max_retries =>
            /\ msgs'[x].status = "failed"
            /\ mid \notin DOMAIN pending_messages'
            /\ mid \in DOMAIN failed_messages' /\ failed_messages'[mid] = x

\* C8, for the wake-up of the retry task tmr of a message that is still
\* pending in a running queue: it is appended to the demoted tier, no earlier
\* than its delay
C8_RequeueStep(tmr) ==
    LET x == tmr.slot
        tier == IF msgs[x].priority = CRITICAL THEN NORMAL ELSE LOW
    IN (q_running /\ msgs[x].status = "pending") =>
          /\ now >= tmr.due
          /\ priority_queues' = [priority_queues EXCEPT ![tier] = Append(@, x)]

\* C8, last part: no step puts a permanently failed message in a queue
C8_NeverQueuedAgain ==
    \A x \in UsedSlots : \A p \in Priorities :
        msgs[x].status = "failed" =>
            Occurrences(priority_queues'[p], x) <= Occurrences(priority_queues[p], x)

\* C8: mark_failed on a pending message increments retry_count by one; below
\* max_retries the message is re-queued after min(2^retry_count, 60) seconds,
\* in the normal tier if it is critical and in the low tier otherwise; at
\* max_retries it becomes failed, moves from the pending set to the failed
\* set and is never queued again.
C8_Claim ==
    [][/\ \A mid \in DOMAIN pending_messages : MarkFailed(mid) => C8_FailStep(mid)
       /\ \A tmr \in timers : Requeue(tmr) => C8_RequeueStep(tmr)
       /\ C8_NeverQueuedAgain]_vars

\* C8 without its last part (what the code does guarantee)
C8_MarkFailedSteps ==
    [][/\ \A mid \in DOMAIN pending_messages : MarkFailed(mid) => C8_FailStep(mid)
       /\ \A tmr \in timers : Requeue(tmr) => C8_RequeueStep(tmr)]_vars

\* ------------------------------------------------------------------ drain specification
\* Messages of every priority are enqueued and handed out in batches.
MaxDrainSlots == 4
DrainBatchSizes == {1, MaxDrainSlots}

InitDrain ==
    /\ InitRegistry
    /\ InitZoneService(FALSE, FALSE)
    /\ InitEmitter
    /\ InitQueue(MaxDrainSlots, DefaultMaxQueueSize, DrainBatchSizes, FALSE)
    /\ q_running = FALSE
    /\ now = 0

NextDrain ==
    \/ \E i \in QueueTargets, p \in Priorities :
          Enqueue(i, p, 0, TRUE) /\ RegistryIdle
    \/ TakeBatch /\ RegistryIdle

SpecDrain == InitDrain /\ [][NextDrain]_vars

\* ------------------------------------------------------------------ claims on batches
\* the slots of the batch b that were taken from tier p, in batch order
TakenFrom(b, p) ==
    LET F[i \in 0..Len(b)] ==
            IF i = 0 THEN <<>>
            ELSE IF b[i].tier = p THEN Append(F[i - 1], b[i].slot) ELSE F[i - 1]
    IN F[Len(b)]

\* the step is a call of get_next_batch
BatchStep == qret'.op = "get_next_batch" /\ qret' # qret

\* C6: get_next_batch returns at most batch_size messages, ordered critical,
\* high, normal, low; within one tier the messages come in the order they were
\* queued, from the head of the tier; a message of a lower tier is in the
\* batch only if every higher tier's queue was emptied.
C6_BatchOrder ==
    [][BatchStep =>
        LET b == qret'.batch IN
        /\ Len(b) <= batch_size
        /\ \A i \in 1..Len(b) : msgs'[b[i].slot].priority = b[i].tier
        /\ \A i, j \in 1..Len(b) : i < j => b[i].tier >= b[j].tier
        /\ \A p \in Priorities :
              TakenFrom(b, p) \o priority_queues'[p] = priority_queues[p]
        /\ \A i \in 1..Len(b) : \A p \in Priorities :
              p > b[i].tier => priority_queues'[p] = <<>>
        /\ (Len(b) < batch_size) => \A p \in Priorities : priority_queues'[p] = <<>>
    ]_vars

\* C6 witness: low, critical, normal, high were enqueued in that order and one
\* batch returned critical, high, normal, low
C6_Witness ==
    /\ qret.op = "get_next_batch"
    /\ qret.batch = << [slot |-> 2, tier |-> CRITICAL], [slot |-> 4, tier |-> HIGH],
                       [slot |-> 3, tier |-> NORMAL], [slot |-> 1, tier |-> LOW] >>
    /\ msgs[1].priority = LOW /\ msgs[2].priority = CRITICAL
    /\ msgs[3].priority = NORMAL /\ msgs[4].priority = HIGH

\* the batch-order part of C6 for tiers that may hold retried messages: the
\* batch is ordered by the tier each message was queued in
BatchOrderByTier ==
    [][BatchStep =>
        LET b == qret'.batch IN
        /\ Len(b) <= batch_size
        /\ \A i, j \in 1..Len(b) : i < j => b[i].tier >= b[j].tier
        /\ \A p \in Priorities :
              TakenFrom(b, p) \o priority_queues'[p] = priority_queues[p]
        /\ \A i \in 1..Len(b) : \A p \in Priorities :
              p > b[i].tier => priority_queues'[p] = <<>>
    ]_vars

\* ------------------------------------------------------------------ delivery specification
\* Messages are enqueued, handed out and marked delivered or failed; a
\* delivery callback may suspend mark_delivered.
MaxDeliverSlots == 2

InitDeliver ==
    /\ InitRegistry
    /\ InitZoneService(FALSE, FALSE)
    /\ InitEmitter
    /\ InitQueue(MaxDeliverSlots, DefaultMaxQueueSize, {DefaultBatchSize}, FALSE)
    /\ q_running = FALSE
    /\ now = 0

NextDeliver ==
    \/ \E i \in QueueTargets, p \in RetryPriorities :
          Enqueue(i, p, 0, TRUE) /\ RegistryIdle
    \/ TakeBatch /\ RegistryIdle
    \/ \E mid \in KnownIds, b \in BOOLEAN : MarkDelivered(mid, b) /\ RegistryIdle
    \/ \E e \in DOMAIN in_callback : MarkDeliveredResume(e) /\ RegistryIdle
    \/ \E mid \in KnownIds : MarkFailed(mid) /\ RegistryIdle

SpecDeliver == InitDeliver /\ [][NextDeliver]_vars

\* ------------------------------------------------------------------ claims on delivery
\* a mark_delivered call for the message in slot x is suspended in its callback
InCallback(x) == \E e \in DOMAIN in_callback : e.slot = x

\* C9: a message that was marked delivered has status delivered, had its
\* callback called exactly once, with success, and, once mark_delivered
\* has returned, is no longer pending and is in the history once; no further
\* or concurrent mark_delivered or mark_failed changes that.
C9_DeliveredOnce ==
    \A x \in UsedSlots :
        (msgs[x].status = "delivered" \/ TRUE \in SeqRange(hist[x].cbs)) =>
            /\ msgs[x].status = "delivered"
            /\ hist[x].cbs = <<TRUE>>
            /\ ~InCallback(x) =>
                  /\ \A mid \in DOMAIN pending_messages : pending_messages[mid] # x
                  /\ Occurrences(message_history, x) = 1

\* ------------------------------------------------------------------ rate specification
\* One target is sent more messages than its rate limit allows, in three
\* moments: the start, RateWindow seconds later and one second after that.
\* The queue holds RateCapacity messages, so every further enqueue evicts.
RateCapacity == 1
MaxRateSlots == RateCapacity + 1
RateClock == {RateWindow * 1000, (RateWindow + 1) * 1000}

InitRate ==
    /\ InitRegistry
    /\ InitZoneService(FALSE, FALSE)
    /\ InitEmitter
    /\ InitQueue(MaxRateSlots, RateCapacity, {DefaultBatchSize}, FALSE)
    /\ q_running = FALSE
    /\ now = 0

TickRate ==
    /\ \E t \in RateClock : t > now /\ now' = t
    /\ UNCHANGED <<regVars, queueVars, q_running, zoneVars, progVars>>

NextRate ==
    \/ \E i \in QueueTargets : Enqueue(i, LOW, 0, FALSE) /\ RegistryIdle
    \/ TickRate

SpecRate == InitRate /\ [][NextRate]_vars

\* ------------------------------------------------------------------ claims on the rate limit
\* the sum of the counts c[s] over the times s in ts
RECURSIVE SumOver(_, _)
SumOver(c, ts) ==
    IF ts = {} THEN 0
    ELSE LET s == CHOOSE u \in ts : TRUE IN c[s] + SumOver(c, ts \ {s})

\* the number of enqueues accepted for ident at the time from or later
AcceptedSince(ident, from) ==
    IF ident \notin DOMAIN accepted THEN 0
    ELSE SumOver(accepted[ident], {s \in DOMAIN accepted[ident] : s >= from})

\* the step is an enqueue that was rejected with the rate-limit error
RejectedEnqueue == qret'.op = "enqueue" /\ ~qret'.ok

\* a rejected enqueue adds nothing to the queues or the pending set
RejectedAddsNothing ==
    RejectedEnqueue => UNCHANGED <<priority_queues, pending_messages, msgs,
                                   failed_messages, message_history>>

\* C10 (as the code has it): for every target id the accepted enqueues are
\* counted per window; a window starts with the first enqueue made more than
\* 60 seconds after the start of the one before, and at most 100 enqueues are
\* accepted from a window's start on until the next window starts; an enqueue
\* beyond that is rejected and adds nothing to the queues or the pending set.
C10_FixedWindow ==
    /\ [](\A ident \in DOMAIN rate_limits :
            /\ rate_limits[ident].count <= RateLimit
            /\ AcceptedSince(ident, rate_limits[ident].window_start)
                  = rate_limits[ident].count
            /\ AcceptedSince(ident, now - RateWindow * 1000) <= 2 * RateLimit)
    /\ [][RejectedAddsNothing]_vars

\* C10 witness: the limit was used up in a second window, and an enqueue was
\* rejected there
C10_Witness ==
    /\ qret.op = "enqueue" /\ ~qret.ok
    /\ \E ident \in DOMAIN rate_limits :
          /\ rate_limits[ident].count = RateLimit
          /\ rate_limits[ident].window_start > 0

\* C10 (as stated): at most 100 enqueues are accepted for a target id in any
\* 60 seconds, and a rejected enqueue adds nothing
C10_RollingWindow ==
    /\ [](\A ident \in DOMAIN accepted :
            AcceptedSince(ident, now - RateWindow * 1000 + 1) <= RateLimit)
    /\ [][RejectedAddsNothing]_vars

\* ------------------------------------------------------------------ registry specification
\* ConnectionManager.start(): the queue is started with it
ManagerStart ==
    /\ ~mgr_running
    /\ mgr_running' = TRUE
    /\ q_running' = TRUE
    /\ ret' = Ret("start", NoClient, None, TRUE, 0, {}, {}, TRUE, TRUE)
    /\ UNCHANGED <<active_connections, user_connections, rooms, client_metadata,
                   connection_stats, next_client, queueVars, now, zoneVars, progVars>>

\* ConnectionManager.stop(): every client is disconnected, then the queue is
\* stopped
ManagerStop ==
    /\ mgr_running
    /\ mgr_running' = FALSE
    /\ SetRegState(DisconnectAll(RegState, active_connections))
    /\ ret' = Ret("stop", NoClient, None, TRUE, Cardinality(active_connections),
                  active_connections, {}, TRUE, TRUE)
    /\ q_running' = FALSE
    /\ SetQState(Flush(QState, now, batch_size))
    /\ qret' = NoRet
    /\ UNCHANGED <<next_client, batch_size, max_queue_size, persistence, now,
                   zoneVars, progVars>>

InitRegistrySpec ==
    /\ InitRegistry
    /\ InitZoneService(FALSE, FALSE)
    /\ InitEmitter
    /\ InitQueue(1, DefaultMaxQueueSize, {DefaultBatchSize}, FALSE)
    /\ q_running = FALSE
    /\ now = 0

TickRegistry ==
    /\ now + RegistryTickMs <= MaxRegistryNow
    /\ now' = now + RegistryTickMs
    /\ UNCHANGED <<regVars, queueVars, q_running, zoneVars, progVars>>

\* a step of the registry alone: the queue and the clock stay as they are
QueueIdle == UNCHANGED <<queueVars, q_running, now, zoneVars, progVars>>

NextRegistry ==
    \/ \E uid \in Users : Connect(uid) /\ QueueIdle
    \/ \E uid \in Users : ConnectRefused(uid) /\ QueueIdle
    \/ \E c \in Clients : Disconnect(c) /\ QueueIdle
    \/ \E c \in Clients, r \in Rooms : JoinRoom(c, r) /\ QueueIdle
    \/ \E c \in Clients, r \in Rooms : LeaveRoom(c, r) /\ QueueIdle
    \/ \E c \in Clients, tx \in BOOLEAN : Send(c, tx) /\ QueueIdle
    \/ \E r \in Rooms, excl \in Clients \cup {NoClient} :
          BroadcastToRoom(r, excl) /\ QueueIdle
    \/ \E c \in Clients : HandlePing(c) /\ QueueIdle
    \/ StaleSweep /\ QueueIdle
    \/ ManagerStart
    \/ ManagerStop
    \/ TickRegistry

SpecRegistry == InitRegistrySpec /\ [][NextRegistry]_vars

\* ------------------------------------------------------------------ claims on the registry
\* C1: every member of every room is a live connection.
C1_MembersLive == \A r \in DOMAIN rooms : rooms[r] \subseteq active_connections

\* C1 witness: a client that was a member of a room was swept as stale, and
\* another client is still a member of a room
C1_Witness ==
    /\ ret.op = "sweep"
    /\ \E c \in ret.members : c \notin active_connections
    /\ \E r \in DOMAIN rooms : rooms[r] # {}

\* whether client c is a member of room r in the room table rm
Member(rm, c, r) == c \in RoomMembers(rm, r)

\* C2: a live connection is a member of a room after its join_room for that
\* room and not after its leave_room for it, whatever it was before; every
\* other operation leaves the membership of a connection that stays live as it
\* is; no room of the room table is empty.
C2_NetEffect ==
    /\ [](\A r \in DOMAIN rooms : rooms[r] # {})
    /\ [][\A c \in Clients, r \in Rooms :
            IF ret'.op = "join_room" /\ ret'.client = c /\ ret'.room = r /\ ret'.live
            THEN Member(rooms', c, r)
            ELSE IF ret'.op = "leave_room" /\ ret'.client = c /\ ret'.room = r
            THEN ~Member(rooms', c, r)
            ELSE IF c \in active_connections'
            THEN Member(rooms', c, r) = Member(rooms, c, r)
            ELSE ~Member(rooms', c, r)]_vars

\* C2 witness: the only member of a room left it, and the room is gone while
\* the client is still a member of the other room
C2_Witness ==
    /\ ret.op = "leave_room" /\ ret.live
    /\ ret.members = {ret.client}
    /\ ret.room \notin DOMAIN rooms
    /\ \E r \in DOMAIN rooms : ret.client \in rooms[r]

\* a client that is not connected appears in no table
Gone(c) ==
    /\ c \notin active_connections
    /\ c \notin DOMAIN client_metadata
    /\ \A u \in DOMAIN user_connections :
          c \notin user_connections[u] /\ user_connections[u] # {}
    /\ \A r \in DOMAIN rooms : c \notin rooms[r] /\ rooms[r] # {}

\* C3: after disconnect(client_id) the client is in no table, and no user entry
\* or room is left empty; a disconnect of a client that is not connected
\* changes no table and sends nothing.
C3_Disconnect ==
    /\ [](ret.op = "disconnect" => Gone(ret.client))
    /\ [][(ret'.op = "disconnect" /\ ~ret'.live) =>
            UNCHANGED <<active_connections, user_connections, rooms, client_metadata,
                        connection_stats>>]_vars

\* C3 for the clients of a user with a non-empty id
DisconnectNamedUsers ==
    /\ [](ret.op = "disconnect" /\ (\A u \in DOMAIN user_connections :
                                      ret.client \in user_connections[u] => u # "")
            => Gone(ret.client))
    /\ [][(ret'.op = "disconnect" /\ ~ret'.live) =>
            UNCHANGED <<active_connections, user_connections, rooms, client_metadata,
                        connection_stats>>]_vars

\* C4: broadcast_to_room writes the event to the transport of exactly the
\* members of the room other than the excluded client, and returns how many
\* those are.
C4_BroadcastToRoom ==
    ret.op = "broadcast_to_room" =>
        /\ ret.written = ret.members \ {ret.client}
        /\ ret.count = Cardinality(ret.members \ {ret.client})

\* C5: send to a live connection returns true only if the event was written to
\* its transport; when the transport does not take the write, the call returns
\* false and the connection is no longer registered.
C5_Send ==
    (ret.op = "send" /\ ret.live) =>
        /\ ret.ok => ret.client \in ret.written
        /\ ~ret.tx => ~ret.ok /\ Gone(ret.client)

\* ------------------------------------------------------------------ capacity specification
\* A queue of capacity QueueCapacity is sent messages of every priority and
\* drained one message at a time.
QueueCapacity == 2
MaxCapacitySlots == QueueCapacity + 2
MaxCapacityEnqueues == 5

InitCapacity ==
    /\ InitRegistry
    /\ InitZoneService(FALSE, FALSE)
    /\ InitEmitter
    /\ InitQueue(MaxCapacitySlots, QueueCapacity, {1}, FALSE)
    /\ q_running = FALSE
    /\ now = 0

\* the number of enqueues accepted so far for ident
AcceptedCount(ident) ==
    IF ident \in DOMAIN rate_limits THEN rate_limits[ident].count ELSE 0

NextCapacity ==
    \/ \E i \in QueueTargets, p \in Priorities :
          /\ AcceptedCount(i) < MaxCapacityEnqueues
          /\ Enqueue(i, p, 0, FALSE) /\ RegistryIdle
    \/ TakeBatch /\ RegistryIdle

SpecCapacity == InitCapacity /\ [][NextCapacity]_vars

\* ------------------------------------------------------------------ claims on capacity
\* the step is an enqueue that was accepted
AcceptedEnqueue == qret'.op = "enqueue" /\ qret'.ok

\* the number of messages in the priority queues
QueuedNow == Len(priority_queues[LOW]) + Len(priority_queues[NORMAL])
             + Len(priority_queues[HIGH]) + Len(priority_queues[CRITICAL])

\* C11: an enqueue that finds the queue at capacity removes exactly the oldest
\* message of the low tier if that tier holds one, otherwise exactly the
\* oldest message of the normal tier if that tier holds one; nothing else
\* leaves a queue, so no message of the high or critical tier is evicted; an
\* enqueue below capacity evicts nothing.
C11_Eviction ==
    [][AcceptedEnqueue =>
        LET full == QueuedNow >= max_queue_size
            tier == IF ~full THEN 0
                    ELSE IF priority_queues[LOW] # <<>> THEN LOW
                    ELSE IF priority_queues[NORMAL] # <<>> THEN NORMAL
                    ELSE 0
        IN \A p \in Priorities :
              LET kept == IF p = tier THEN Tail(priority_queues[p])
                          ELSE priority_queues[p]
              IN \/ priority_queues'[p] = kept
                 \/ /\ Len(priority_queues'[p]) = Len(kept) + 1
                    /\ SubSeq(priority_queues'[p], 1, Len(kept)) = kept
                    /\ msgs'[priority_queues'[p][Len(kept) + 1]].priority = p
                    /\ msgs'[priority_queues'[p][Len(kept) + 1]].id = qret'.id
    ]_vars

\* C11 witness: three enqueues were accepted at capacity 2 without a drain;
\* a high message is queued, and the slot of the evicted message was taken by
\* the newest message
C11_Witness ==
    /\ qret.op = "enqueue" /\ qret.ok
    /\ max_queue_size = 2 /\ QueuedNow = 2
    /\ \E i \in DOMAIN accepted : \E t \in DOMAIN accepted[i] : accepted[i][t] = 3
    /\ UsedSlots = {1, 2}
    /\ priority_queues[HIGH] = <<2>>
    /\ priority_queues[NORMAL] = <<1>>

\* C12: the priority queues never hold more messages than max_queue_size.
C12_Bounded == QueuedNow <= max_queue_size

\* ------------------------------------------------------------------ expiry specification
\* Messages with a time to live of one second or the default are queued and
\* drained while the clock moves past the short time to live.
MaxExpirySlots == 3
MaxExpiryEnqueues == 3
ExpiryTickMs == 500
MaxExpiryNow == 1500
\* ttl arguments of enqueue, seconds; 0 stands for no ttl argument
ExpiryTtls == {0, 1}
ExpiryBatchSizes == {1, MaxExpirySlots}

InitExpiry ==
    /\ InitRegistry
    /\ InitZoneService(FALSE, FALSE)
    /\ InitEmitter
    /\ InitQueue(MaxExpirySlots, DefaultMaxQueueSize, ExpiryBatchSizes, FALSE)
    /\ q_running = FALSE
    /\ now = 0

TickExpiry ==
    /\ now + ExpiryTickMs <= MaxExpiryNow
    /\ now' = now + ExpiryTickMs
    /\ UNCHANGED <<regVars, queueVars, q_running, zoneVars, progVars>>

NextExpiry ==
    \/ \E i \in QueueTargets, p \in Priorities, ttl \in ExpiryTtls :
          /\ AcceptedCount(i) < MaxExpiryEnqueues
          /\ Enqueue(i, p, ttl, FALSE) /\ RegistryIdle
    \/ TakeBatch /\ RegistryIdle
    \/ TickExpiry

SpecExpiry == InitExpiry /\ [][NextExpiry]_vars

\* ------------------------------------------------------------------ claims on expiry
\* the slots of a batch
BatchSlots(b) == {b[i].slot : i \in 1..Len(b)}

\* C13: get_next_batch pops each tier from the head; a popped message whose
\* expires_at has passed is left out of the batch, is marked expired and its
\* id is no longer in the pending set; every other popped message is in the
\* batch, so the batch never holds an expired message.
C13_ExpiredSkipped ==
    [][BatchStep =>
        LET b == qret'.batch IN
        /\ \A i \in 1..Len(b) : ~(now > msgs[b[i].slot].expires_at)
        /\ \A p \in Priorities :
              LET k == Len(priority_queues[p]) - Len(priority_queues'[p]) IN
              /\ k >= 0
              /\ priority_queues'[p] =
                    SubSeq(priority_queues[p], k + 1, Len(priority_queues[p]))
              /\ \A i \in 1..k :
                    LET x == priority_queues[p][i] IN
                    IF now > msgs[x].expires_at
                    THEN /\ x \notin BatchSlots(b)
                         /\ msgs[x].id \notin DOMAIN pending_messages'
                         /\ x \notin DictRange(pending_messages')
                         /\ msgs'[x].status \in {"expired", "free"}
                    ELSE x \in BatchSlots(b)
    ]_vars

\* C13 witness: two messages were accepted, the first with a ttl of one
\* second; the drain at 1.5 s dropped the first and returned the second
C13_Witness ==
    /\ qret.op = "get_next_batch"
    /\ now = MaxExpiryNow
    /\ Len(qret.batch) = 1 /\ qret.batch[1].slot = 2
    /\ msgs[1].status = "free"
    /\ msgs[2].expires_at > now
    /\ pending_messages # EmptyDict
    /\ \A p \in Priorities : priority_queues[p] = <<>>

\* ------------------------------------------------------------------ resolver specification
\* The resolver's functions are applied to every pair of change sets over
\* three fields, one of them named like the shadow key of another, while the
\* lock of one zone is acquired and released.
ChangeFields == {<<"a">>, <<"b">>, <<"a", "local">>}
ChangeValues == {1, 2}
MaxChanges == 2
\* change sets in iteration order
ChangeLists ==
    {s \in UNION {[1..n -> ChangeFields \X ChangeValues] : n \in 0..MaxChanges} :
        \A i, j \in 1..Len(s) : i # j => s[i][1] # s[j][1]}
\* change sets as dicts
ChangeSets == UNION {[F -> ChangeValues] : F \in SUBSET ChangeFields}
ResolverZones == {"z1"}
ZoneUsers == {"u1", "u2"}
ResolverVersions == {0, 1}
Strategies == {"last_write_wins", "merge", "manual", "lock_based"}

\* the conflicts detect_conflict can return for the change sets local and remote
GivenConflicts(local, remote) ==
    {detect_conflict(EmptyDict, "z1", 0, 1, local, remote),
     detect_conflict(Put(EmptyDict, "z1", "u1"), "z1", 0, 0, local, remote),
     detect_conflict(EmptyDict, "z1", 0, 0, local, remote)} \ {NoConflict}

InitResolver ==
    /\ InitRegistry
    /\ InitQueue(1, DefaultMaxQueueSize, {DefaultBatchSize}, FALSE)
    /\ q_running = FALSE
    /\ now = 0
    /\ zone_versions = EmptyDict
    /\ zone_locks = EmptyDict
    /\ conflict_history = <<>>
    /\ zs_zone_versions = EmptyDict
    /\ demo_zones = EmptyDict
    /\ svc_resolver = FALSE
    /\ svc_manager = FALSE
    /\ cret = NoCRet
    /\ InitEmitter
    /\ \E local \in ChangeLists, remote \in ChangeSets :
          pending_edit = [local |-> local, remote |-> remote]

NextResolver ==
    \/ \E u \in ZoneUsers, z \in ResolverZones, lv, rv \in ResolverVersions :
          DetectConflict(u, z, lv, rv, pending_edit.local, pending_edit.remote)
          /\ ZonesOnly
    \/ \E st \in Strategies :
          \E c \in GivenConflicts(pending_edit.local, pending_edit.remote) :
             ResolveConflict(c, pending_edit.local, pending_edit.remote, st)
             /\ ZonesOnly
    \/ \E z \in ResolverZones, u \in ZoneUsers : AcquireLock(z, u) /\ ZonesOnly
    \/ \E z \in ResolverZones, u \in ZoneUsers : ReleaseLock(z, u) /\ ZonesOnly

SpecResolver == InitResolver /\ [][NextResolver]_vars

\* ------------------------------------------------------------------ claims on the resolver
\* the fields that the change sets of the last call both hold, with
\* different values
BothDiffer ==
    LET L == AsDict(cret.local) IN
    {f \in DOMAIN L \cap DOMAIN cret.remote : L[f] # cret.remote[f]}

\* C14: detect_conflict returns VERSION_MISMATCH with severity high whenever
\* the two versions differ, whatever the lock and the change sets; with equal
\* versions and an unlocked zone it returns CONCURRENT_EDIT with severity high
\* and exactly the fields both change sets hold with different values if there
\* is such a field, and None if there is none.
C14_DetectConflict ==
    cret.op = "detect_conflict" =>
        /\ cret.submitted # cret.current =>
              /\ cret.conflict.type = "version_mismatch"
              /\ cret.conflict.severity = "high"
        /\ (cret.submitted = cret.current /\ cret.zone \notin DOMAIN zone_locks) =>
              IF BothDiffer # {}
              THEN /\ cret.conflict.type = "concurrent_edit"
                   /\ cret.conflict.severity = "high"
                   /\ cret.conflict.conflicting_fields = BothDiffer
              ELSE cret.conflict = NoConflict

\* C14 witness: equal versions, no lock, the change sets differ on field a
\* alone and agree on field b
C14_Witness ==
    /\ cret.op = "detect_conflict"
    /\ cret.submitted = cret.current
    /\ cret.zone \notin DOMAIN zone_locks
    /\ cret.conflict.type = "concurrent_edit"
    /\ cret.conflict.conflicting_fields = {<<"a">>}
    /\ <<"b">> \in DOMAIN cret.remote
    /\ \E i \in 1..Len(cret.local) : cret.local[i] = <<<<"b">>, cret.remote[<<"b">>]>>

\* C14 second case: the versions differ on a locked zone
C14_MismatchOnLockedZone ==
    /\ cret.op = "detect_conflict"
    /\ cret.submitted # cret.current
    /\ cret.zone \in DOMAIN zone_locks
    /\ cret.conflict.type = "version_mismatch"

\* C15: with equal versions detect_conflict returns LOCKED_ZONE, severity
\* medium, exactly when the zone is locked by a user other than the one who
\* submitted the edit.
C15_LockedByOther ==
    (cret.op = "detect_conflict" /\ cret.submitted = cret.current) =>
        /\ cret.conflict.type = "locked_zone" <=>
              /\ cret.zone \in DOMAIN zone_locks
              /\ zone_locks[cret.zone] # cret.user
        /\ cret.conflict.type = "locked_zone" => cret.conflict.severity = "medium"

\* C16: resolve_conflict with MERGE returns every remote field at its remote
\* value and every field of local alone at its local value; for every field
\* both hold with different values the local value is under <field>_local and
\* <field>_conflict is set; requires_intervention is true exactly when there
\* is such a field, whatever conflict was passed in.
C16_Merge ==
    (cret.op = "resolve_conflict" /\ cret.strategy = "merge") =>
        LET L == AsDict(cret.local)
            R == cret.remote
            m == cret.changes
        IN /\ \A f \in DOMAIN R : f \in DOMAIN m /\ m[f] = R[f]
           /\ \A f \in DOMAIN L \ DOMAIN R : f \in DOMAIN m /\ m[f] = L[f]
           /\ \A f \in BothDiffer :
                 /\ Append(f, "local") \in DOMAIN m
                 /\ m[Append(f, "local")] = L[f]
                 /\ Append(f, "conflict") \in DOMAIN m
                 /\ m[Append(f, "conflict")] = TRUE
           /\ cret.requires_intervention <=> BothDiffer # {}

\* what of C16 holds when the conflict passed in is the CONCURRENT_EDIT that
\* detect_conflict returns for the two change sets, and no field of either
\* change set is named like a shadow key
C16_MergeOfConcurrentEdit ==
    (/\ cret.op = "resolve_conflict" /\ cret.strategy = "merge"
     /\ cret.given.type = "concurrent_edit"
     /\ \A f \in DOMAIN AsDict(cret.local) \cup DOMAIN cret.remote : Len(f) = 1)
    => C16_Merge

\* ------------------------------------------------------------------ lock specification
\* Three users acquire and release the locks of two zones, and the versions
\* of the zones are set and read.
LockZones == {"z1", "z2"}
LockUsers == {"u1", "u2", "u3"}
MaxResolverVersion == 2

InitLocks ==
    /\ InitRegistry
    /\ InitZoneService(FALSE, FALSE)
    /\ InitEmitter
    /\ InitQueue(1, DefaultMaxQueueSize, {DefaultBatchSize}, FALSE)
    /\ q_running = FALSE
    /\ now = 0

NextLocks ==
    \/ \E z \in LockZones, u \in LockUsers : AcquireLock(z, u) /\ ZonesOnly
    \/ \E z \in LockZones, u \in LockUsers : ReleaseLock(z, u) /\ ZonesOnly
    \/ \E z \in LockZones, v \in 0..MaxResolverVersion :
          UpdateVersion(z, v) /\ ZonesOnly
    \/ \E z \in LockZones : GetVersion(z) /\ ZonesOnly

SpecLocks == InitLocks /\ [][NextLocks]_vars

\* ------------------------------------------------------------------ claims on locks
\* the lock of the zone of the call is free or held by the calling user
FreeFor(z, u) == z \notin DOMAIN zone_locks \/ zone_locks[z] = u

\* the lock table after the step is the one before it, with the holder of
\* zone z set to h (None: no holder)
LocksBecome(z, h) ==
    /\ DOMAIN zone_locks' = IF h = None THEN DOMAIN zone_locks \ {z}
                            ELSE DOMAIN zone_locks \cup {z}
    /\ \A y \in DOMAIN zone_locks' :
          zone_locks'[y] = IF y = z THEN h ELSE zone_locks[y]

\* C17: acquire_lock(z, u) returns true and makes u the holder of z exactly
\* when z is unlocked or held by u, and otherwise returns false and leaves the
\* lock table as it is; release_lock(z, u) removes the lock of z and returns
\* true exactly when u holds it, and otherwise returns false and changes
\* nothing; every locked zone has one holder.
C17_Locks ==
    /\ [](\A z \in DOMAIN zone_locks : zone_locks[z] \in LockUsers)
    /\ [][/\ cret'.op = "acquire_lock" =>
               IF FreeFor(cret'.zone, cret'.user)
               THEN cret'.ok /\ LocksBecome(cret'.zone, cret'.user)
               ELSE ~cret'.ok /\ zone_locks' = zone_locks
          /\ cret'.op = "release_lock" =>
               IF cret'.zone \in DOMAIN zone_locks
                  /\ zone_locks[cret'.zone] = cret'.user
               THEN cret'.ok /\ LocksBecome(cret'.zone, None)
               ELSE ~cret'.ok /\ zone_locks' = zone_locks
         ]_vars

\* C17 witness: an acquire_lock was refused, the zone is held by another
\* user, and the other zone is locked too
C17_Witness ==
    /\ cret.op = "acquire_lock" /\ ~cret.ok
    /\ cret.zone \in DOMAIN zone_locks
    /\ zone_locks[cret.zone] # cret.user
    /\ DOMAIN zone_locks = LockZones

\* C19: the version the resolver holds for a zone never decreases.
C19_VersionNeverDecreases ==
    [][\A z \in LockZones :
          (IF z \in DOMAIN zone_versions' THEN zone_versions'[z] ELSE 0)
          >= (IF z \in DOMAIN zone_versions THEN zone_versions[z] ELSE 0)]_vars

\* ------------------------------------------------------------------ zone specification
\* A zone service, with or without a conflict resolver and a connection
\* manager, creates one zone; two users edit it, each edit submitted with no
\* version or a version from 0 to MaxVersion, and lock and unlock it.
MaxVersion == 4
ZoneIds == {"z1"}
\* zone_update.model_dump(exclude_none=True): nothing, or a new content
ZoneEdits == {<<>>} \cup {<< <<<<"content">>, v>> >> : v \in ChangeValues}
SubmittedVersions == {NoVersion} \cup 0..MaxVersion

InitZones ==
    /\ InitRegistry
    /\ \E res, mgr \in BOOLEAN : InitZoneService(res, mgr)
    /\ InitEmitter
    /\ InitQueue(1, DefaultMaxQueueSize, {DefaultBatchSize}, FALSE)
    /\ q_running = FALSE
    /\ now = 0

NextZones ==
    \/ \E z \in ZoneIds, v \in ChangeValues : CreateZone(z, v) /\ ZonesOnly
    \/ \E z \in ZoneIds, upd \in ZoneEdits, u \in ZoneUsers,
          ver \in SubmittedVersions :
          /\ get_version(zs_zone_versions, z) < MaxVersion
          /\ UpdateZoneCollaborative(z, upd, u, ver) /\ ZonesOnly
    \/ \E z \in ZoneIds, u \in ZoneUsers : LockZone(z, u) /\ ZonesOnly
    \/ \E z \in ZoneIds, u \in ZoneUsers : UnlockZone(z, u) /\ ZonesOnly
    \/ \E z \in ZoneIds : GetVersion(z) /\ ZonesOnly

SpecZones == InitZones /\ [][NextZones]_vars

\* ------------------------------------------------------------------ claims on zone edits
\* the step is a collaborative edit of zone z that was applied
AppliedEdit(z) ==
    /\ cret'.op = "update_zone_collaborative"
    /\ cret'.zone = z
    /\ cret'.applied

\* the version of zone z that edits are compared against
CurrentVersion(z) == IF z \in DOMAIN zs_zone_versions THEN zs_zone_versions[z] ELSE 0

C20_MismatchReported ==
    (/\ cret.op = "update_zone_collaborative"
     /\ svc_resolver /\ ~svc_manager
     /\ cret.raised = None
     /\ cret.submitted # NoVersion
     /\ cret.submitted # cret.current)
    => cret.conflict.type = "version_mismatch"

\* the part of C20 for a lower version: the conflict is returned, and the
\* edit is applied all the same
C20_LowerReported ==
    (/\ cret.op = "update_zone_collaborative"
     /\ svc_resolver /\ ~svc_manager
     /\ cret.raised = None
     /\ cret.submitted # NoVersion
     /\ cret.submitted < cret.current)
    => cret.conflict.type = "version_mismatch" /\ cret.applied

\* C21: after every applied collaborative edit of a zone the version the
\* resolver returns for it has grown by exactly 1 and is the version the edit
\* path compares submissions against.
C21_ResolverHoldsVersion ==
    [][\A z \in ZoneIds :
          AppliedEdit(z) =>
             /\ (IF z \in DOMAIN zone_versions' THEN zone_versions'[z] ELSE 0)
                = (IF z \in DOMAIN zone_versions THEN zone_versions[z] ELSE 0) + 1
             /\ (IF z \in DOMAIN zone_versions' THEN zone_versions'[z] ELSE 0)
                = CurrentVersion(z)'
      ]_vars

\* ------------------------------------------------------------------ lock holding specification
\* Two users connect, lock and unlock a zone and are disconnected, by
\* themselves or by the stale sweep, while the clock moves.
NextLockHold ==
    \/ \E uid \in ZoneUsers : Connect(uid) /\ QueueIdle
    \/ \E c \in Clients : Disconnect(c) /\ QueueIdle
    \/ StaleSweep /\ QueueIdle
    \/ ManagerStart
    \/ TickRegistry
    \/ \E z \in ResolverZones, u \in ZoneUsers : AcquireLock(z, u) /\ ZonesOnly
    \/ \E z \in ResolverZones, u \in ZoneUsers : ReleaseLock(z, u) /\ ZonesOnly

SpecLockHold == InitRegistrySpec /\ [][NextLockHold]_vars

\* C22: the holder of a zone's lock stays its holder in every step but a
\* release_lock call of the holder: neither the clock, nor an acquire or
\* release by another user, nor a disconnect of the holder's connections
\* removes or reassigns the lock.
C22_LockHeld ==
    [][\A z \in DOMAIN zone_locks :
          \/ z \in DOMAIN zone_locks' /\ zone_locks'[z] = zone_locks[z]
          \/ /\ cret'.op = "release_lock" /\ cret'.ok
             /\ cret'.zone = z /\ cret'.user = zone_locks[z]
             /\ UNCHANGED <<regVars, now>>
      ]_vars

\* C22 witness: u1 holds the lock, the clock has moved to its end, the sweep
\* has disconnected the last connection of u1 and an acquire by u2 was refused
C22_Witness ==
    /\ "z1" \in DOMAIN zone_locks /\ zone_locks["z1"] = "u1"
    /\ now = MaxRegistryNow
    /\ ret.op = "sweep" /\ ret.count > 0
    /\ next_client > 1
    /\ "u1" \notin DOMAIN user_connections
    /\ cret.op = "acquire_lock" /\ cret.user = "u2" /\ ~cret.ok


\* ------------------------------------------------------------------ progress specification
\* One job id is tracked, driven through its stages and page counts, completed,
\* cancelled and tracked again, while its user connects and disconnects.
JobIds == {"j1"}
JobUsers == {"u1"}
TotalPages == {0, 2, 10}
CurrentPages == {1, 5, 12}
ProgressStages == DOMAIN stage_progress \cup {"failed"}

NextProgress ==
    \/ \E uid \in JobUsers : Connect(uid) /\ QueueIdle
    \/ \E c \in Clients : Disconnect(c) /\ QueueIdle
    \/ \E j \in JobIds, u \in JobUsers, tp \in TotalPages :
          StartJobTracking(j, u, tp) /\ EmitterOnly
    \/ \E j \in JobIds, stage \in ProgressStages : UpdateStage(j, stage) /\ EmitterOnly
    \/ \E j \in JobIds, cp \in CurrentPages : UpdatePageProgress(j, cp) /\ EmitterOnly
    \/ \E j \in JobIds : AddZoneProcessed(j) /\ EmitterOnly
    \/ \E j \in JobIds, recoverable \in BOOLEAN : AddError(j, recoverable) /\ EmitterOnly
    \/ \E j \in JobIds, success \in BOOLEAN : CompleteJob(j, success) /\ EmitterOnly
    \/ \E j \in JobIds : CancelJob(j) /\ EmitterOnly

SpecProgress == InitRegistrySpec /\ [][NextProgress]_vars

\* the position of a stage in the order of ProgressStage
StageRank ==
    "initializing" :> 1 @@ "preprocessing" :> 2 @@ "analyzing" :> 3 @@
    "zone_detection" :> 4 @@ "text_extraction" :> 5 @@ "post_processing" :> 6 @@
    "finalizing" :> 7 @@ "completed" :> 8

\* an emitter call acted on the entry of job j, which was tracked before it
\* and is not tracked anew by it
SameJobStep(j) ==
    /\ j \in DOMAIN active_jobs
    /\ j \in DOMAIN active_jobs'
    /\ <<pret, active_jobs>>' # <<pret, active_jobs>>
    /\ pret'.op # "start_job_tracking"

\* C23: the stage of a tracked job only moves forward through the order
\* initializing, preprocessing, analyzing, zone_detection, text_extraction,
\* post_processing, finalizing, completed, or to failed: no emitter call moves
\* a job to an earlier stage, or out of failed.
C23_StageForward ==
    [][\A j \in JobIds :
          SameJobStep(j) =>
             \/ active_jobs'[j].stage = active_jobs[j].stage
             \/ active_jobs'[j].stage = "failed"
             \/ /\ active_jobs[j].stage # "failed"
                /\ StageRank[active_jobs'[j].stage] > StageRank[active_jobs[j].stage]
      ]_vars

\* C24: a call that moves a tracked job to failed (update_stage(failed),
\* add_error with recoverable=false, complete_job with success=false,
\* cancel_job) leaves its percentage at the value it had, and the percentage
\* of a failed job is changed by no later call.
C24_FailedKeepsPercentage ==
    [][\A j \in JobIds :
          /\ SameJobStep(j)
          /\ "failed" \in {active_jobs[j].stage, active_jobs'[j].stage}
          => active_jobs'[j].progress_percentage = active_jobs[j].progress_percentage
      ]_vars

\* update_page_progress acted on the tracked job j
PageStep(j) ==
    /\ SameJobStep(j)
    /\ pret'.op = "update_page_progress"

\* the percentage pct is base + (cp / tp) * points, capped at 95
PagePercentageIs(pct, base, points, cp, tp) ==
    IF base * tp + points * cp <= 95 * tp
    THEN pct * tp = base * tp + points * cp
    ELSE pct = 95

\* C25: in zone_detection, text_extraction and post_processing,
\* update_page_progress sets the percentage to
\* base + (current_page / total_pages) * weight, with bases 25, 45, 75 and
\* weights 30, 40, 20 points, capped at 95; in every other stage, and for a
\* job of no pages, it leaves the percentage as it was.  Page 5 of 10 in
\* zone_detection gives 40.
C25_PageProgress ==
    [][\A j \in JobIds :
          PageStep(j) =>
             LET job == active_jobs[j]
                 cp == active_jobs'[j].current_page
                 tp == job.total_pages
                 pct == active_jobs'[j].progress_percentage
             IN  /\ active_jobs'[j].stage = job.stage
                 /\ CASE tp <= 0 -> pct = job.progress_percentage
                      [] job.stage = "zone_detection" ->
                            PagePercentageIs(pct, 25, 30, cp, tp)
                      [] job.stage = "text_extraction" ->
                            PagePercentageIs(pct, 45, 40, cp, tp)
                      [] job.stage = "post_processing" ->
                            PagePercentageIs(pct, 75, 20, cp, tp)
                      [] OTHER -> pct = job.progress_percentage
                 /\ (job.stage = "zone_detection" /\ tp = 10 /\ cp = 5) => pct = 40
      ]_vars

\* page 5 of 10 in zone_detection: the percentage is 40
C25_Witness ==
    /\ pret.op = "update_page_progress"
    /\ "j1" \in DOMAIN active_jobs
    /\ active_jobs["j1"].stage = "zone_detection"
    /\ active_jobs["j1"].total_pages = 10
    /\ active_jobs["j1"].current_page = 5
    /\ active_jobs["j1"].progress_percentage = 40

\* the room "job_<job_id>" of a job
JobRoom(j) == CASE j = "j1" -> "job_j1"

\* C26: once start_job_tracking has run for a job, the job's state is
\* initialized (stage initializing) and every live connection of its user is a
\* member of the room job_<job_id>.
C26_UserJoinedJobRoom ==
    [][\A j \in JobIds :
          /\ pret'.op = "start_job_tracking"
          /\ pret'.job = j
          /\ <<pret, active_jobs>>' # <<pret, active_jobs>>
          => /\ j \in DOMAIN active_jobs'
             /\ active_jobs'[j].stage = "initializing"
             /\ \A c \in RoomMembers(user_connections', active_jobs'[j].user_id) :
                   /\ c \in active_connections'
                   /\ c \in RoomMembers(rooms', JobRoom(j))
      ]_vars

\* C27: the state of a job is removed only once the job is completed and the
\* grace period of 300 s has passed, and after complete_job it is eventually
\* removed.  Entries are removed by the sleeping cleanup tasks only, so every
\* complete_job of a tracked job leaves a cleanup of that job waiting, due
\* 300 s later.
C27_CleanupFollowsCompletion ==
    [][\A j \in JobIds :
          /\ pret'.op = "complete_job"
          /\ pret'.job = j
          /\ j \in DOMAIN active_jobs
          /\ <<pret, active_jobs>>' # <<pret, active_jobs>>
          => [job |-> j, wake |-> now + 300000] \in cleanup_tasks'
      ]_vars

\* ------------------------------------------------------------------ presence and sweep
\* C28: when a live connection joins a room whose id starts with document_,
\* every other member is sent the presence-joined event and the joiner is sent
\* the roster; when a member leaves such a room and members remain, every
\* remaining member is sent the presence-left event.
C28_Presence ==
    /\ (ret.op = "join_room" /\ ret.live /\ ret.room \in DocumentRooms) =>
          /\ ret.ok
          /\ ret.written = ret.members \cup {ret.client}
    /\ (/\ ret.op = "leave_room" /\ ret.room \in DocumentRooms
        /\ ret.client \in ret.members /\ ret.members # {ret.client}) =>
          /\ ret.ok
          /\ ret.written = ret.members \ {ret.client}

\* Connections are opened, send heartbeats and go silent while the clock
\* passes the staleness threshold; the sweep loop runs a pass every 60 s for
\* as long as the registry is running, so its passes are weakly fair.
NextSweep ==
    \/ \E uid \in JobUsers : Connect(uid) /\ QueueIdle
    \/ \E c \in Clients : Disconnect(c) /\ QueueIdle
    \/ \E c \in Clients : HandlePing(c) /\ QueueIdle
    \/ StaleSweep /\ QueueIdle
    \/ ManagerStart
    \/ ManagerStop
    \/ TickRegistry

SpecSweep ==
    InitRegistrySpec /\ [][NextSweep]_vars /\ WF_vars(StaleSweep /\ QueueIdle)

\* the last heartbeat of the live connection c is more than 300 s old
IsStale(c) ==
    /\ c \in active_connections
    /\ client_metadata[c].last_ping < now - 300000

\* C29: while the registry is running, a pass of the sweep disconnects
\* exactly the connections whose last heartbeat is older than 300 s, so a
\* connection whose heartbeats keep arriving within the threshold is never
\* disconnected by it; and a connection that has become stale is eventually
\* disconnected (unless a heartbeat arrives or the registry stops first).
C29_Sweep ==
    /\ [][(ret'.op = "sweep" /\ ret' # ret) =>
             /\ mgr_running
             /\ ret'.members = {c \in Clients : IsStale(c)}
             /\ active_connections' = active_connections \ ret'.members
             /\ \A c \in active_connections' :
                   client_metadata'[c] = client_metadata[c]
          ]_vars
    /\ \A c \in Clients :
          (IsStale(c) /\ mgr_running)
             ~> (c \notin active_connections \/ ~IsStale(c) \/ ~mgr_running)

\* a pass of the sweep has disconnected the silent connection 1 and left
\* connection 2, whose heartbeat arrived within the threshold
C29_Witness ==
    /\ ret.op = "sweep"
    /\ ret.members = {1}
    /\ active_connections = {2}
    /\ client_metadata[2].last_ping > 0
    /\ now - client_metadata[2].last_ping <= 300000
    /\ mgr_running

\* ------------------------------------------------------------------ websocket router
\* websocket_endpoint(websocket, user_id): the connection is accepted and
\* registered; the welcome event is built as SystemNotificationEvent(type=,
\* data=, user_id=), whose constructor requires title and message, so the
\* TypeError leaves the outer try before the read loop is entered and the
\* finally clause disconnects the client.  ok: the read loop was entered;
\* live: the connection is registered when the endpoint is left.
WebsocketEndpoint(uid) ==
    LET c == next_client
        ac == active_connections \cup {c}
        w == SendWritten(ac, {c})
        f == SendFailed(ac, {c})
        S == [ac |-> ac,
              uc |-> Put(user_connections, uid,
                         RoomMembers(user_connections, uid) \cup {c}),
              rm |-> rooms,
              md |-> Put(client_metadata, c,
                         [user_id |-> uid, last_ping |-> now, rooms |-> {}]),
              st |-> StatsAfterSends(
                        [connection_stats EXCEPT !.total_connections = @ + 1],
                        Cardinality(w), Cardinality(f))]
        T == DisconnectState(S, c)
    IN
    /\ next_client <= MaxClients
    /\ SetRegState(T)
    /\ next_client' = c + 1
    /\ ret' = Ret("websocket_endpoint", c, None, FALSE, 0, {}, w, c \in T.ac, TRUE)
    /\ UNCHANGED mgr_running

\* handle_client_message(connection_manager, user_id, client_id, message) for
\* a message of type mtype.  A ping goes to handle_ping(client_id).  For a
\* type the handler does not know, the error event is given to
\* send_personal_message(user_id, ...): the registry looks the user id up
\* among the client ids, finds no connection and returns False, so nothing is
\* written.
HandleClientMessage(c, mtype) ==
    IF mtype = "ping" THEN HandlePing(c)
    ELSE /\ ret' = Ret("handle_client_message", c, None, FALSE, 0, {}, {},
                       c \in active_connections, TRUE)
         /\ UNCHANGED <<active_connections, user_connections, rooms,
                        client_metadata, connection_stats, mgr_running,
                        next_client>>

MessageTypes == {"ping", "bogus"}

NextRouter ==
    \/ \E uid \in Users : WebsocketEndpoint(uid) /\ QueueIdle
    \/ \E uid \in Users : Connect(uid) /\ QueueIdle
    \/ \E c \in Clients : Disconnect(c) /\ QueueIdle
    \/ \E c \in Clients, mtype \in MessageTypes :
          HandleClientMessage(c, mtype) /\ QueueIdle
    \/ TickRegistry

SpecRouter == InitRegistrySpec /\ [][NextRouter]_vars

\* C30: an inbound message that is not valid JSON or is of an unknown type
\* gets an error event (INVALID_JSON, UNKNOWN_MESSAGE_TYPE) written to the
\* connection that sent it, and that connection stays registered with its
\* read loop running: the endpoint enters its read loop with the connection
\* registered, and the handler of a live connection's message of unknown type
\* writes the error to that connection and leaves it registered.
C30_ErrorOnSameConnection ==
    /\ ret.op = "websocket_endpoint" => ret.ok /\ ret.live
    /\ (ret.op = "handle_client_message" /\ ret.live) =>
          /\ ret.client \in ret.written
          /\ ret.client \in active_connections

MaxBackgroundSlots == 2
BackgroundCapacity == 1
MaxBackgroundEnqueues == 2
BackgroundTickMs == 2000
MaxBackgroundNow == 2000
BackgroundTtls == {1}
BackgroundPriorities == {LOW, HIGH}

InitBackground ==
    /\ InitRegistry
    /\ InitZoneService(FALSE, FALSE)
    /\ InitEmitter
    /\ InitQueue(MaxBackgroundSlots, BackgroundCapacity, {1}, FALSE)
    /\ q_running = FALSE
    /\ now = 0

TickBackground ==
    /\ now + BackgroundTickMs <= MaxBackgroundNow
    /\ now' = now + BackgroundTickMs
    /\ UNCHANGED <<regVars, queueVars, q_running, zoneVars, progVars>>

NextBackground ==
    \/ \E i \in QueueTargets, p \in BackgroundPriorities, ttl \in BackgroundTtls :
          /\ AcceptedCount(i) < MaxBackgroundEnqueues
          /\ Enqueue(i, p, ttl, TRUE) /\ RegistryIdle
    \/ QueueStart
    \/ ProcessQueuePass /\ RegistryIdle
    \/ CleanupExpired /\ RegistryIdle
    \/ \E mid \in KnownIds : MarkDelivered(mid, FALSE) /\ RegistryIdle
    \/ \E mid \in KnownIds : MarkFailed(mid) /\ RegistryIdle
    \/ \E tmr \in timers : Requeue(tmr) /\ RegistryIdle
    \/ QueueStop
    \/ TickBackground

SpecBackground == InitBackground /\ [][NextBackground]_vars

\* ------------------------------------------------------------------ claims on the background loops
\* the slots the tiers pq hold
Queued(pq) == UNION {SeqRange(pq[p]) : p \in Priorities}

\* the step is a pass of _process_queue or the flush of stop()
BackgroundDrainStep ==
    \/ qret'.op = "process_queue" /\ qret'.batch # <<>>
    \/ q_running /\ ~q_running'

\* C33: every message a background drain (a pass of _process_queue, the flush
\* of stop()) removes from the priority queues is settled by that drain: it is
\* marked delivered, marked failed (dropped, or waiting for its retry), or
\* expired; none is taken out and left pending and unmarked.
C33_DrainSettles ==
    [][BackgroundDrainStep =>
         \A x \in Queued(priority_queues) \ Queued(priority_queues') :
            \/ msgs'[x].status \in {"delivered", "failed", "expired", "free"}
            \/ x \in {t.slot : t \in timers'}
            \/ msgs'[x].retry_count > msgs[x].retry_count]_vars

\* C34: a message that has reached a terminal status has left the pending
\* table and was moved to the history or to the failed set: a delivered
\* message is in the history, a permanently failed one in the failed set, an
\* expired one in one of the two.
C34_TerminalMoved ==
    \A x \in DOMAIN msgs :
       /\ msgs[x].status \in {"delivered", "failed", "expired"} =>
             x \notin DictRange(pending_messages)
       /\ msgs[x].status = "delivered" => x \in SeqRange(message_history)
       /\ msgs[x].status = "failed" => x \in DictRange(failed_messages)
       /\ msgs[x].status = "expired" =>
             x \in SeqRange(message_history) \cup DictRange(failed_messages)


\* ------------------------------------------------------------------ claims on concurrent edits
\* the step is a collaborative edit of user u2 that follows an applied edit of
\* another user to the same zone: both were submitted against the same base
\* version and give some field different values
SecondOfTwoEdits ==
    /\ svc_resolver
    /\ cret.op = "update_zone_collaborative" /\ cret.applied
    /\ cret'.op = "update_zone_collaborative"
    /\ cret'.zone = cret.zone
    /\ cret'.user # cret.user
    /\ cret.submitted # NoVersion
    /\ cret'.submitted = cret.submitted
    /\ ConflictingFields(cret'.local, AsDict(cret.local)) # {}

\* C35: when two users edit the same field of a zone with different values
\* against the same base version, the second edit does not silently replace
\* the first: it is rejected, or it comes back with requires_intervention and
\* the zone is left as the first edit made it.
C35_SecondEditHeld ==
    [][SecondOfTwoEdits =>
          /\ ~cret'.applied
          /\ cret'.raised # None \/ cret'.requires_intervention
          /\ demo_zones' = demo_zones]_vars

\* the step is a collaborative edit of zone z by a user who does not hold the
\* lock on z
EditByOther(z) ==
    /\ z \in DOMAIN zone_locks
    /\ cret'.op = "update_zone_collaborative"
    /\ cret'.zone = z
    /\ cret'.user # zone_locks[z]

\* C36: while a zone is locked by a user, no collaborative edit of another
\* user is applied to it, whatever version the edit was submitted with: the
\* zone and its version stay as they are.
C36_LockedNotEdited ==
    [][\A z \in ZoneIds :
          EditByOther(z) =>
             /\ ~cret'.applied
             /\ demo_zones' = demo_zones
             /\ zs_zone_versions' = zs_zone_versions]_vars

\* ------------------------------------------------------------------ id specification
\* Messages are enqueued and marked delivered or failed within one
\* millisecond: the clock stands still.
MaxIdSlots == 3

InitIds ==
    /\ InitRegistry
    /\ InitZoneService(FALSE, FALSE)
    /\ InitEmitter
    /\ InitQueue(MaxIdSlots, DefaultMaxQueueSize, {DefaultBatchSize}, FALSE)
    /\ q_running = FALSE
    /\ now = 0

NextIds ==
    \/ \E i \in QueueTargets, p \in RetryPriorities :
          Enqueue(i, p, 0, FALSE) /\ RegistryIdle
    \/ \E mid \in KnownIds : MarkDelivered(mid, FALSE) /\ RegistryIdle
    \/ \E mid \in KnownIds : MarkFailed(mid) /\ RegistryIdle

SpecIds == InitIds /\ [][NextIds]_vars

\* C37: enqueue never returns an id that a message still in the pending table
\* has, so that it never overwrites the entry of another pending message; this
\* holds for every interleaving of enqueue, mark_delivered and mark_failed,
\* also within one millisecond.
C37_FreshId ==
    [][(qret'.op = "enqueue" /\ qret'.ok) =>
          /\ qret'.id \notin DOMAIN pending_messages
          /\ \A mid \in DOMAIN pending_messages :
                pending_messages'[mid] = pending_messages[mid]]_vars

\* ------------------------------------------------------------------ claims on completion callbacks
\* the message in slot x, pending before the step, is no longer in the
\* pending table after it
LeavesPending(x) ==
    /\ x \in DictRange(pending_messages)
    /\ x \notin DictRange(pending_messages')

\* C38: no accepted message with a completion callback leaves the pending
\* table without its callback being invoked: the step that takes it out of
\* the table (delivery, permanent failure, expiry, eviction) calls it.
C38_CallbackOnLeave ==
    [][\A x \in DOMAIN msgs :
          (LeavesPending(x) /\ msgs[x].callback) =>
              Len(hist'[x].cbs) = Len(hist[x].cbs) + 1]_vars

\* ------------------------------------------------------------------ claims on the percentage
\* an emitter call on the tracked job j that drives it forward: the stage
\* stays or moves to the next one, and the page counter stays or grows within
\* 0..total_pages
ForwardStep(j) ==
    /\ SameJobStep(j)
    /\ active_jobs[j].stage # "failed" /\ active_jobs'[j].stage # "failed"
    /\ StageRank[active_jobs'[j].stage] >= StageRank[active_jobs[j].stage]
    /\ StageRank[active_jobs'[j].stage] <= StageRank[active_jobs[j].stage] + 1
    /\ active_jobs'[j].current_page >= active_jobs[j].current_page
    /\ active_jobs'[j].current_page <= active_jobs'[j].total_pages

\* C39: for a job driven forward through the stages in order, with page
\* counters within 0..total_pages, the percentage of the job (the value its
\* progress events carry) never decreases, however update_stage and
\* update_page_progress calls interleave.
C39_PercentageMonotone ==
    [][\A j \in JobIds :
          ForwardStep(j) =>
             active_jobs'[j].progress_percentage >= active_jobs[j].progress_percentage
      ]_vars

\* ------------------------------------------------------------------ claims on disconnect under failing sends
\* the step is disconnect(c) for a connection c that was live
DisconnectOfLive(c) ==
    /\ c \in active_connections
    /\ ret'.op = "disconnect" /\ ret'.client = c /\ ret'.live

\* C40: disconnect(client_id) on a live connection returns and leaves the
\* client in no table: not in the connection table, not in the connection set
\* of any user, in no room and not in the metadata table; also when the
\* client is in rooms and every send of the status notification fails.
C40_DisconnectRemoves ==
    [][\A c \in Clients :
          DisconnectOfLive(c) =>
             /\ c \notin active_connections'
             /\ \A u \in DOMAIN user_connections' : c \notin user_connections'[u]
             /\ \A r \in DOMAIN rooms' : c \notin rooms'[r]
             /\ c \notin DOMAIN client_metadata']_vars

\* ------------------------------------------------------------------ restart and restore
\* the orders in which redis.keys("websocket:queue:*") can list the keys
KeyOrders(keys) ==
    {ks \in [1..Cardinality(keys) -> keys] : {ks[i] : i \in DOMAIN ks} = keys}

\* restore_from_persistence: the loop over the keys ks at time t; a stored
\* message that is not expired is appended to the tier of its priority and
\* entered in the pending table, the key of an expired one is deleted
RECURSIVE RestoreKeys(_, _, _, _)
RestoreKeys(Q, P, ks, t) ==
    IF ks = <<>> THEN [q |-> Q, p |-> P]
    ELSE LET m == from_dict(P.store[Head(ks)])
             x == CHOOSE y \in FreeSlots(Q) : \A z \in FreeSlots(Q) : y <= z
         IN IF t < m.expires_at
            THEN RestoreKeys([Q EXCEPT !.pq[m.priority] = Append(@, x),
                                       !.pm = Put(Q.pm, m.id, x),
                                       !.ms[x] = m],
                             P, Tail(ks), t)
            ELSE RestoreKeys(Q, [P EXCEPT !.store = Del(@, Head(ks))], Tail(ks), t)

\* the process ends and a new one builds its MessageQueue over the same Redis
\* store and calls restore_from_persistence()
RestoreFromPersistence ==
    /\ persistence.enabled
    /\ \E ks \in KeyOrders(DOMAIN persistence.store) :
          LET Q0 == [pq |-> [p \in Priorities |-> <<>>], pm |-> EmptyDict,
                     fm |-> EmptyDict, mh |-> <<>>,
                     ms |-> [x \in DOMAIN msgs |-> FreeMsg], rl |-> EmptyDict,
                     tm |-> {}, cb |-> EmptyDict,
                     hs |-> [x \in DOMAIN hist |-> FreeHist], acc |-> EmptyDict]
              r == RestoreKeys(Q0, persistence, ks, now)
          IN /\ SetQState(r.q)
             /\ persistence' = r.p
             /\ qret' = QRet("restore", NoId, TRUE, <<>>)
    /\ q_running' = FALSE
    /\ UNCHANGED <<batch_size, max_queue_size, regVars, now, zoneVars, progVars>>

\* A queue with durable mirroring: messages are enqueued, marked delivered or
\* failed, expire, and the process is restarted.
MaxRestoreSlots == 2
MaxRestoreEnqueues == 2

InitRestore ==
    /\ InitRegistry
    /\ InitZoneService(FALSE, FALSE)
    /\ InitEmitter
    /\ InitQueue(MaxRestoreSlots, DefaultMaxQueueSize, {DefaultBatchSize}, TRUE)
    /\ q_running = FALSE
    /\ now = 0

NextRestore ==
    \/ \E i \in QueueTargets, p \in RetryPriorities, ttl \in ExpiryTtls :
          /\ AcceptedCount(i) < MaxRestoreEnqueues
          /\ Enqueue(i, p, ttl, TRUE) /\ RegistryIdle
    \/ \E mid \in KnownIds : MarkDelivered(mid, FALSE) /\ RegistryIdle
    \/ \E mid \in KnownIds : MarkFailed(mid) /\ RegistryIdle
    \/ TickExpiry
    \/ RestoreFromPersistence

SpecRestore == InitRestore /\ [][NextRestore]_vars

\* the ids of the messages in flight: pending, not settled, and not expired
\* at the time t
InFlight(t) ==
    {mid \in DOMAIN pending_messages :
        /\ msgs[pending_messages[mid]].status = "pending"
        /\ t < msgs[pending_messages[mid]].expires_at}

====
